---- MODULE Spec2Model ----
(***************************************************************************)
(* Miso virtual assistant: the command classifier and interpreter          *)
(* (CommandProcessor), the dispatch facade (MisoService), the device       *)
(* registry (HomeAssistantService), the weather and news gateways and the  *)
(* chat component's turn handling (handleSendMessage).                     *)
(*                                                                         *)
(* Text is modelled by TLA+ strings; TLC evaluates Len, \o, SubSeq, Head   *)
(* and Tail on them, so substring tests, trimming, lower-casing and the    *)
(* regular expressions of the source are computed character by character. *)
(* Whitespace is the space character; the degree sign of the weather       *)
(* sentences is left out of the response texts.                            *)
(***************************************************************************)
EXTENDS Integers, Sequences, FiniteSets, TLC

VARIABLES
    impl,         \* which CommandProcessor is linked: "api" (lib/api.ts) or "services" (services/command-processor)
    devices,      \* HomeAssistantService.devices
    connected,    \* HomeAssistantService.connected
    regReturn,    \* what the last direct registry operation returned or raised
    regOps,       \* number of direct registry operations so far
    message,      \* argument of the last MisoService.processMessage call
    result,       \* CommandResult of the last processCommand call
    facade,       \* what the last processMessage call returned
    calls,        \* registry / gateway calls issued by the last processCommand call, in order
    met,          \* what the last processMessage call met: HTTP outcome, day, random numbers, registry before
    ncmd,         \* number of processMessage calls so far (command specification)
    input,        \* MisoAssistant: input state
    isProcessing, \* MisoAssistant: isProcessing state
    messages,     \* MisoAssistant: transcript
    special,      \* MisoAssistant: specialCommandResult state
    turns,        \* MisoAssistant: one record per accepted user message (the async handleSendMessage invocations)
    pc,           \* MisoAssistant: where each of these invocations is: waiting for its "gateway", for /api/"chat", or "done"
    gw,           \* the last direct call of a weather gateway operation or fallback generator, with what it returned
    gwOps         \* number of such calls so far (weather specification)

vars == <<impl, devices, connected, regReturn, regOps, message, result, facade, calls, met,
          ncmd, input, isProcessing, messages, special, turns, pc, gw, gwOps>>

regVars == <<devices, connected, regReturn, regOps>>
cmdVars == <<message, result, facade, calls, met, ncmd>>
uiVars  == <<input, isProcessing, messages, special, turns, pc>>
gwVars  == <<gw, gwOps>>

-----------------------------------------------------------------------------
(* Bounds *)

MaxCommands == 2      \* processMessage calls in the command specification
MaxTurns == 2         \* user messages accepted in the chat specification
MaxRegistryOps == 2   \* direct registry operations in the registry specification
MaxGatewayOps == 2    \* direct gateway and generator calls in the weather specification

-----------------------------------------------------------------------------
(* Strings *)

UpperChars == "ABCDEFGHIJKLMNOPQRSTUVWXYZ"
LowerChars == "abcdefghijklmnopqrstuvwxyz"
DigitChars == "0123456789"

CharAt(s, i) == SubSeq(s, i, i)

CharsOf(chars) == {CharAt(chars, i) : i \in 1..Len(chars)}

IndexIn(c, chars) == CHOOSE i \in 1..Len(chars) : CharAt(chars, i) = c

UpperSet == CharsOf(UpperChars)
DigitSet == CharsOf(DigitChars)
SpaceSet == {" "}

\* the character class [a-zA-Z\s]
WordSet == CharsOf(LowerChars) \cup UpperSet \cup SpaceSet

\* the terminators [?.,!]
TerminatorSet == {"?", ".", ",", "!"}

\* String.prototype.includes
Includes(s, k) == \E i \in 1..(Len(s) - Len(k) + 1) : SubSeq(s, i, i + Len(k) - 1) = k

\* does k occur in s starting at position p
MatchAt(s, p, k) == p + Len(k) - 1 <= Len(s) /\ SubSeq(s, p, p + Len(k) - 1) = k

LowerOf == [c \in UpperSet |-> CharAt(LowerChars, IndexIn(c, UpperChars))]

LowerChar(c) == IF c \in UpperSet THEN LowerOf[c] ELSE c

RECURSIVE toLowerCase(_)
toLowerCase(s) == IF Len(s) = 0 THEN "" ELSE LowerChar(Head(s)) \o toLowerCase(Tail(s))

RECURSIVE trimStart(_)
trimStart(s) == IF Len(s) > 0 /\ Head(s) \in SpaceSet THEN trimStart(Tail(s)) ELSE s

RECURSIVE trimEnd(_)
trimEnd(s) ==
    IF Len(s) > 0 /\ CharAt(s, Len(s)) \in SpaceSet THEN trimEnd(SubSeq(s, 1, Len(s) - 1)) ELSE s

trim(s) == trimEnd(trimStart(s))

\* end (exclusive) of the longest run of characters of the class cls that starts at p
RECURSIVE RunEnd(_, _, _)
RunEnd(s, p, cls) == IF p <= Len(s) /\ CharAt(s, p) \in cls THEN RunEnd(s, p + 1, cls) ELSE p

DigitValue == [c \in DigitSet |-> IndexIn(c, DigitChars) - 1]

RECURSIVE parseInt(_)
parseInt(s) ==
    IF Len(s) = 0 THEN 0
    ELSE 10 * parseInt(SubSeq(s, 1, Len(s) - 1)) + DigitValue[CharAt(s, Len(s))]

\* Body applied to the value of v, which is computed once
With(v, Body(_)) == CHOOSE r \in {Body(x) : x \in {v}} : TRUE

\* smallest element of a non-empty set of integers
Min(S) == CHOOSE x \in S : \A y \in S : x <= y

NoMatch == [found |-> FALSE, group |-> ""]

\* String.prototype.match with /(?:k1|k2|..)\s+([a-zA-Z\s]+)(?:$|[?.,!])/i : does the
\* pattern match at position p with the keyword kw.  The keyword is followed by at least
\* one space and a run of letters and spaces that ends at the end of the text or at a
\* terminator; the group takes at least one character of that run.
PrepositionFoundAt(s, p, kw) ==
    /\ p + Len(kw) - 1 <= Len(s)
    /\ toLowerCase(SubSeq(s, p, p + Len(kw) - 1)) = kw
    /\ \E from \in {p + Len(kw)} :
       \E stop \in {RunEnd(s, from, WordSet)} :
           /\ RunEnd(s, from, SpaceSet) > from
           /\ stop - from >= 2
           /\ (stop > Len(s) \/ CharAt(s, stop) \in TerminatorSet)

\* the group of a match at p.  Both quantifiers are greedy: \s+ takes every leading space
\* but leaves the group one character, and the group reaches the end of the run.
PrepositionGroupAt(s, p, kw) ==
    With(<<RunEnd(s, p + Len(kw), SpaceSet), RunEnd(s, p + Len(kw), WordSet)>>,
         LAMBDA e : SubSeq(s, IF e[1] = e[2] THEN e[2] - 1 ELSE e[1], e[2] - 1))

\* the leftmost match, the alternatives tried in the order of kws
PrepositionMatch(s, kws) ==
    With({p \in 1..Len(s) : \E i \in 1..Len(kws) : PrepositionFoundAt(s, p, kws[i])},
         LAMBDA hits :
            IF hits = {} THEN NoMatch
            ELSE With(Min(hits),
                      LAMBDA p :
                         [found |-> TRUE,
                          group |-> PrepositionGroupAt(s, p,
                                        kws[Min({j \in 1..Len(kws) :
                                                    PrepositionFoundAt(s, p, kws[j])})])]))

\* String.prototype.match with /(\d+)\s*degrees?/ : the leftmost run of digits that is
\* followed by optional spaces and the word "degree"
DegreesMatch(s) ==
    LET Hit(p) == /\ CharAt(s, p) \in DigitSet
                  /\ MatchAt(s, RunEnd(s, RunEnd(s, p, DigitSet), SpaceSet), "degree")
        hits == {p \in 1..Len(s) : Hit(p)}
    IN  IF hits = {} THEN NoMatch
        ELSE [found |-> TRUE, group |-> SubSeq(s, Min(hits), RunEnd(s, Min(hits), DigitSet) - 1)]

\* Array.prototype.some over a keyword list
AnyKeyword(command, keywords) == \E i \in 1..Len(keywords) : Includes(command, keywords[i])

-----------------------------------------------------------------------------
(* Device registry: HomeAssistantService *)

\* the categories of this.devices and the entity ids of each, in insertion order
CategoryOrder == <<"lights", "thermostats", "switches", "sensors", "media_players">>

EntityOrder ==
    [lights        |-> <<"light.living_room", "light.kitchen", "light.bedroom", "light.bathroom">>,
     thermostats   |-> <<"climate.living_room">>,
     switches      |-> <<"switch.tv", "switch.coffee_maker">>,
     sensors       |-> <<"sensor.temperature", "sensor.humidity">>,
     media_players |-> <<"media_player.living_room">>]

Range(seq) == {seq[i] : i \in 1..Len(seq)}

initializeMockDevices ==
    [lights |->
        [e \in Range(EntityOrder.lights) |->
            [state |-> "off", brightness |-> 0,
             friendly_name |-> CASE e = "light.living_room" -> "Living Room Light"
                                 [] e = "light.kitchen" -> "Kitchen Light"
                                 [] e = "light.bedroom" -> "Bedroom Light"
                                 [] e = "light.bathroom" -> "Bathroom Light"]],
     thermostats |->
        [e \in Range(EntityOrder.thermostats) |->
            [state |-> "off", temperature |-> 21, target_temp |-> 21, mode |-> "off",
             friendly_name |-> "Living Room Thermostat"]],
     switches |->
        [e \in Range(EntityOrder.switches) |->
            [state |-> "off",
             friendly_name |-> IF e = "switch.tv" THEN "TV" ELSE "Coffee Maker"]],
     sensors |->
        [e \in Range(EntityOrder.sensors) |->
            IF e = "sensor.temperature"
            THEN [state |-> 21, unit |-> "C", friendly_name |-> "Indoor Temperature"]
            ELSE [state |-> 45, unit |-> "%", friendly_name |-> "Indoor Humidity"]],
     media_players |->
        [e \in Range(EntityOrder.media_players) |->
            [state |-> "idle", volume |-> 5, source |-> "None",
             friendly_name |-> "Living Room Speaker"]]]

\* every (category, entity id) pair in the iteration order of Object.values / Object.entries
RECURSIVE FlattenFrom(_)
FlattenFrom(c) ==
    IF c > Len(CategoryOrder) THEN <<>>
    ELSE [i \in 1..Len(EntityOrder[CategoryOrder[c]]) |->
            [category |-> CategoryOrder[c], entity_id |-> EntityOrder[CategoryOrder[c]][i]]]
         \o FlattenFrom(c + 1)

AllEntities == FlattenFrom(1)

\* the categories that hold an entity id, in iteration order ("entityId in category")
CategoriesWith(entityId) ==
    SelectSeq(CategoryOrder, LAMBDA c : entityId \in Range(EntityOrder[c]))

Has(data, field) == field \in DOMAIN data

\* JavaScript truthiness of an optional numeric field: present and not 0
Truthy(data, field) == Has(data, field) /\ data[field] # 0

SetAttr(devs, category, entityId, attrs) ==
    [devs EXCEPT ![category][entityId] =
        [f \in DOMAIN @ |-> IF f \in DOMAIN attrs THEN attrs[f] ELSE @[f]]]

\* the entity key of the payload; a payload without entity_id names no entity
EntityOf(data) == IF Has(data, "entity_id") THEN data.entity_id ELSE ""

\* a callService whose light turn_on stores any brightness given, 0 included
callService_rawBrightness(devs, domain, service, data) ==
    IF domain = "light" /\ service = "turn_on" /\ EntityOf(data) \in DOMAIN devs.lights
    THEN SetAttr(devs, "lights", EntityOf(data),
                 [state |-> "on",
                  brightness |-> IF Has(data, "brightness") THEN data.brightness ELSE 255])
    ELSE IF domain = "light" /\ service = "turn_off" /\ EntityOf(data) \in DOMAIN devs.lights
    THEN SetAttr(devs, "lights", EntityOf(data), [state |-> "off", brightness |-> 0])
    ELSE devs

\* a callService whose light turn_off switches every light off
callService_everyLight(devs, domain, service, data) ==
    IF domain = "light" /\ service = "turn_off" /\ EntityOf(data) \in DOMAIN devs.lights
    THEN [devs EXCEPT !.lights = [e \in DOMAIN devs.lights |->
                                     [devs.lights[e] EXCEPT !.state = "off", !.brightness = 0]]]
    ELSE devs

\* a callService whose light turn_on adds to the brightness instead of setting it
callService_addBrightness(devs, domain, service, data) ==
    IF domain = "light" /\ service = "turn_on" /\ EntityOf(data) \in DOMAIN devs.lights
    THEN SetAttr(devs, "lights", EntityOf(data),
                 [state |-> "on",
                  brightness |-> (devs.lights[EntityOf(data)].brightness + 100) % 256])
    ELSE devs

\* the registry after callService(domain, service, data); the call always returns {success: true}
callService(devs, domain, service, data) ==
    LET entityId == EntityOf(data)
        In(category) == entityId \in DOMAIN devs[category]
    IN  IF domain = "light" THEN
            IF service = "turn_on" /\ In("lights") THEN
                SetAttr(devs, "lights", entityId,
                        [state |-> "on",
                         brightness |-> IF Truthy(data, "brightness") THEN data.brightness ELSE 255])
            ELSE IF service = "turn_off" /\ In("lights") THEN
                SetAttr(devs, "lights", entityId, [state |-> "off", brightness |-> 0])
            ELSE devs
        ELSE IF domain = "switch" THEN
            IF service = "turn_on" /\ In("switches") THEN
                SetAttr(devs, "switches", entityId, [state |-> "on"])
            ELSE IF service = "turn_off" /\ In("switches") THEN
                SetAttr(devs, "switches", entityId, [state |-> "off"])
            ELSE devs
        ELSE IF domain = "climate" THEN
            IF service = "set_temperature" /\ In("thermostats") THEN
                SetAttr(devs, "thermostats", entityId,
                        [target_temp |-> IF Has(data, "temperature") THEN data.temperature ELSE "undefined",
                         state |-> "on", mode |-> "heat"])
            ELSE IF service = "turn_off" /\ In("thermostats") THEN
                SetAttr(devs, "thermostats", entityId, [state |-> "off", mode |-> "off"])
            ELSE devs
        ELSE IF domain = "media_player" THEN
            IF service = "volume_set" /\ In("media_players") THEN
                SetAttr(devs, "media_players", entityId,
                        [volume |-> IF Has(data, "volume_level") THEN data.volume_level ELSE "undefined"])
            ELSE IF service = "turn_on" /\ In("media_players") THEN
                SetAttr(devs, "media_players", entityId, [state |-> "on"])
            ELSE IF service = "turn_off" /\ In("media_players") THEN
                SetAttr(devs, "media_players", entityId, [state |-> "off"])
            ELSE devs
        ELSE devs

ServiceAck == [success |-> TRUE]

\* the registry after setState(entityId, state): the first category holding the entity is updated
setState(devs, entityId, state) ==
    LET cats == CategoriesWith(entityId)
    IN  IF Len(cats) = 0 THEN devs
        ELSE SetAttr(devs, cats[1], entityId, [state |-> state])

\* what setState / getState return: the entity's record, or the error they throw
EntityReturn(devs, entityId) ==
    LET cats == CategoriesWith(entityId)
    IN  IF Len(cats) = 0 THEN [threw |-> "Entity not found"]
        ELSE [entity_id |-> entityId,
              state |-> devs[cats[1]][entityId].state,
              attributes |-> devs[cats[1]][entityId]]

getStates(devs) ==
    [i \in 1..Len(AllEntities) |->
        [entity_id |-> AllEntities[i].entity_id,
         state |-> devs[AllEntities[i].category][AllEntities[i].entity_id].state,
         attributes |-> devs[AllEntities[i].category][AllEntities[i].entity_id]]]

\* getDeviceFriendlyNames: entity id -> friendly name, as a list in insertion order
getDeviceFriendlyNames(devs) ==
    LET named == SelectSeq(AllEntities,
                           LAMBDA x : "friendly_name" \in DOMAIN devs[x.category][x.entity_id])
    IN  [i \in 1..Len(named) |->
            [entityId |-> named[i].entity_id,
             name |-> devs[named[i].category][named[i].entity_id].friendly_name]]

-----------------------------------------------------------------------------
(* Command classifier: CommandProcessor.isHomeCommand / isWeatherCommand / isNewsCommand *)

homeKeywords ==
    <<"turn on", "turn off", "switch on", "switch off", "dim", "brighten", "set", "temperature",
      "thermostat", "light", "lights", "lamp", "tv", "television", "coffee", "maker",
      "living room", "kitchen", "bedroom", "bathroom">>

weatherKeywords ==
    <<"weather", "temperature", "forecast", "rain", "sunny", "cloudy", "humidity", "wind",
      "hot", "cold", "warm", "cool">>

newsKeywords ==
    <<"news", "headlines", "latest", "article", "story", "report", "business", "sports",
      "technology", "science", "health", "entertainment">>

isHomeCommand(command) == AnyKeyword(command, homeKeywords)

isWeatherCommand(command) == AnyKeyword(command, weatherKeywords)

isNewsCommand(command) == AnyKeyword(command, newsKeywords)

-----------------------------------------------------------------------------
(* Command interpreter, Home branch: CommandProcessor.processHomeCommand *)

\* index of the first element of seq satisfying Test, 0 when there is none
FirstIndex(seq, Test(_)) ==
    With({i \in 1..Len(seq) : Test(seq[i])}, LAMBDA hits : IF hits = {} THEN 0 ELSE Min(hits))

\* invertedNames: lower-cased friendly name -> entity id; a key keeps the position of its
\* first insertion and the value of its last
InvertedNames(friendlyNames) ==
    With([i \in 1..Len(friendlyNames) |-> toLowerCase(friendlyNames[i].name)],
         LAMBDA key :
            With({i \in 1..Len(key) : \A j \in 1..(i - 1) : key[j] # key[i]},
                 LAMBDA firsts :
                    [n \in 1..Cardinality(firsts) |->
                        With(CHOOSE i \in firsts : Cardinality({j \in firsts : j < i}) = n - 1,
                             LAMBDA first :
                                With(CHOOSE j \in first..Len(key) :
                                         /\ key[j] = key[first]
                                         /\ \A k \in (j + 1)..Len(key) : key[k] # key[first],
                                     LAMBDA last :
                                        [name |-> key[first],
                                         entityId |-> friendlyNames[last].entityId]))]))

rooms == <<"living room", "kitchen", "bedroom", "bathroom">>

NoTarget == [device |-> "", entityId |-> ""]

\* ResolveTargetIn falling back to the default light whatever the command mentions
ResolveTargetIn_defaultLight(command, friendlyNames, invertedNames) ==
    LET direct == FirstIndex(invertedNames, LAMBDA x : Includes(command, toLowerCase(x.name)))
        room == FirstIndex(rooms, LAMBDA r : Includes(command, r))
        inRoom == IF room = 0 THEN 0
                  ELSE FirstIndex(friendlyNames,
                                  LAMBDA x : Includes(toLowerCase(x.name), rooms[room]))
        byName == IF direct # 0
                  THEN [device |-> invertedNames[direct].name,
                        entityId |-> invertedNames[direct].entityId]
                  ELSE NoTarget
        byRoom == IF byName.device = "" /\ inRoom # 0
                  THEN [device |-> friendlyNames[inRoom].name,
                        entityId |-> friendlyNames[inRoom].entityId]
                  ELSE byName
    IN  IF byRoom.device = ""
        THEN [device |-> "Living Room Light", entityId |-> "light.living_room"]
        ELSE byRoom

\* ResolveTargetIn looking for a room reference ahead of the direct friendly-name match
ResolveTargetIn_roomFirst(command, friendlyNames, invertedNames) ==
    With(FirstIndex(rooms, LAMBDA r : Includes(command, r)),
         LAMBDA room :
    With(IF room = 0 THEN 0
         ELSE FirstIndex(friendlyNames, LAMBDA x : Includes(toLowerCase(x.name), rooms[room])),
         LAMBDA inRoom :
    With(FirstIndex(invertedNames, LAMBDA x : Includes(command, toLowerCase(x.name))),
         LAMBDA direct :
            IF inRoom # 0
            THEN [device |-> friendlyNames[inRoom].name, entityId |-> friendlyNames[inRoom].entityId]
            ELSE IF direct # 0
            THEN [device |-> invertedNames[direct].name, entityId |-> invertedNames[direct].entityId]
            ELSE IF Includes(command, "light") \/ Includes(command, "lights")
            THEN [device |-> "Living Room Light", entityId |-> "light.living_room"]
            ELSE NoTarget)))

\* entity resolution, given the friendly names and their inverted map: direct friendly-name
\* match, then room reference, then the default light
ResolveTargetIn(command, friendlyNames, invertedNames) ==
    With(FirstIndex(invertedNames, LAMBDA x : Includes(command, toLowerCase(x.name))),
         LAMBDA direct :
    With(IF direct # 0
         THEN [device |-> invertedNames[direct].name, entityId |-> invertedNames[direct].entityId]
         ELSE NoTarget,
         LAMBDA byName :
    With(IF byName.device # "" THEN byName
         ELSE With(FirstIndex(rooms, LAMBDA r : Includes(command, r)),
                   LAMBDA room :
              With(IF room = 0 THEN 0
                   ELSE FirstIndex(friendlyNames,
                                   LAMBDA x : Includes(toLowerCase(x.name), rooms[room])),
                   LAMBDA inRoom :
                      IF inRoom # 0
                      THEN [device |-> friendlyNames[inRoom].name,
                            entityId |-> friendlyNames[inRoom].entityId]
                      ELSE byName)),
         LAMBDA byRoom :
            IF byRoom.device = "" /\ (Includes(command, "light") \/ Includes(command, "lights"))
            THEN [device |-> "Living Room Light", entityId |-> "light.living_room"]
            ELSE byRoom)))

ResolveTarget(command, devs) ==
    With(getDeviceFriendlyNames(devs),
         LAMBDA friendlyNames :
            With(InvertedNames(friendlyNames),
                 LAMBDA invertedNames : ResolveTargetIn(command, friendlyNames, invertedNames)))

\* targetEntityId.split(".")[0]
DomainOf(entityId) ==
    LET dots == {i \in 1..Len(entityId) : CharAt(entityId, i) = "."}
    IN  IF dots = {} THEN entityId ELSE SubSeq(entityId, 1, Min(dots) - 1)

RegistryCall(domain, service, data) ==
    [target |-> "registry", domain |-> domain, service |-> service, data |-> data]

simulatedResponse(variant) ==
    IF variant = "api"
    THEN "I'll help you with that smart home request"
    ELSE "I'll help you with that smart home request, but I'm not currently connected to your home devices. If this were a real setup, I would control your devices based on your command."

\* the result when no specific action was carried out
SimulatedResult(variant) ==
    [success |-> TRUE, response |-> simulatedResponse(variant),
     data |-> [simulated |-> TRUE, commandType |-> "home"]]

HomeResult(text, action, target, call, devs) ==
    [result |-> [success |-> TRUE,
                 response |-> text,
                 data |-> [action |-> action, device |-> target.device,
                           entity_id |-> target.entityId, commandType |-> "home"]],
     calls |-> <<call>>,
     devices |-> callService(devs, call.domain, call.service, call.data)]

\* HomeAction with the turn-off test ahead of the turn-on test
HomeAction_offFirst(command, devs, variant, target) ==
    LET domain == DomainOf(target.entityId)
        id == [entity_id |-> target.entityId]
        tempMatch == DegreesMatch(command)
        temperature == IF tempMatch.found THEN parseInt(tempMatch.group) ELSE 22
        setTemp == HomeResult("I've set the " \o target.device \o " to " \o ToString(temperature) \o " degrees.",
                              "set_temperature", target,
                              RegistryCall("climate", "set_temperature",
                                           [entity_id |-> target.entityId, temperature |-> temperature]),
                              devs)
        simulated == [result |-> SimulatedResult(variant), calls |-> <<>>, devices |-> devs]
    IN  IF target.entityId = "" THEN simulated
        ELSE IF Includes(command, "turn off") \/ Includes(command, "switch off") THEN
            HomeResult("I've turned off the " \o target.device \o ".", "turn_off", target,
                       RegistryCall(domain, "turn_off", id), devs)
        ELSE IF Includes(command, "turn on") \/ Includes(command, "switch on") THEN
            HomeResult("I've turned on the " \o target.device \o ".", "turn_on", target,
                       RegistryCall(domain, "turn_on", id), devs)
        ELSE IF domain = "light" /\ (Includes(command, "dim") \/ Includes(command, "lower")) THEN
            HomeResult("I've dimmed the " \o target.device \o ".", "dim", target,
                       RegistryCall("light", "turn_on", [entity_id |-> target.entityId, brightness |-> 100]),
                       devs)
        ELSE IF domain = "light" /\ (Includes(command, "brighten") \/ Includes(command, "increase")) THEN
            HomeResult("I've brightened the " \o target.device \o ".", "brighten", target,
                       RegistryCall("light", "turn_on", [entity_id |-> target.entityId, brightness |-> 255]),
                       devs)
        ELSE IF domain = "climate" /\ Includes(command, "temperature") THEN
            [setTemp EXCEPT !.result.data =
                [action |-> "set_temperature", device |-> target.device,
                 entity_id |-> target.entityId, temperature |-> temperature,
                 commandType |-> "home"]]
        ELSE simulated

\* the action carried out on the resolved target, first matching phrase first
HomeAction(command, devs, variant, target) ==
    LET domain == DomainOf(target.entityId)
        id == [entity_id |-> target.entityId]
        tempMatch == DegreesMatch(command)
        temperature == IF tempMatch.found THEN parseInt(tempMatch.group) ELSE 22
        setTemp == HomeResult("I've set the " \o target.device \o " to " \o ToString(temperature) \o " degrees.",
                              "set_temperature", target,
                              RegistryCall("climate", "set_temperature",
                                           [entity_id |-> target.entityId, temperature |-> temperature]),
                              devs)
        simulated == [result |-> SimulatedResult(variant), calls |-> <<>>, devices |-> devs]
    IN  IF target.entityId = "" THEN simulated
        ELSE IF Includes(command, "turn on") \/ Includes(command, "switch on") THEN
            HomeResult("I've turned on the " \o target.device \o ".", "turn_on", target,
                       RegistryCall(domain, "turn_on", id), devs)
        ELSE IF Includes(command, "turn off") \/ Includes(command, "switch off") THEN
            HomeResult("I've turned off the " \o target.device \o ".", "turn_off", target,
                       RegistryCall(domain, "turn_off", id), devs)
        ELSE IF domain = "light" /\ (Includes(command, "dim") \/ Includes(command, "lower")) THEN
            HomeResult("I've dimmed the " \o target.device \o ".", "dim", target,
                       RegistryCall("light", "turn_on", [entity_id |-> target.entityId, brightness |-> 100]),
                       devs)
        ELSE IF domain = "light" /\ (Includes(command, "brighten") \/ Includes(command, "increase")) THEN
            HomeResult("I've brightened the " \o target.device \o ".", "brighten", target,
                       RegistryCall("light", "turn_on", [entity_id |-> target.entityId, brightness |-> 255]),
                       devs)
        ELSE IF domain = "climate" /\ Includes(command, "temperature") THEN
            [setTemp EXCEPT !.result.data =
                [action |-> "set_temperature", device |-> target.device,
                 entity_id |-> target.entityId, temperature |-> temperature,
                 commandType |-> "home"]]
        ELSE simulated

\* processHomeCommand: the result, the registry calls issued and the registry afterwards
processHomeCommand(command, devs, variant) ==
    With(ResolveTarget(command, devs), LAMBDA target : HomeAction(command, devs, variant, target))

-----------------------------------------------------------------------------
(* Environment of the gateways: clock, Math.random and the HTTP exchanges *)

\* a date is the number of its calendar day; months have DaysInMonth days
DaysInMonth == 30

getDate(date) == ((date - 1) % DaysInMonth) + 1

getMonth(date) == (date - 1) \div DaysInMonth

\* toLocaleDateString("en-US", {weekday: "short", month: "short", day: "numeric"})
toLocaleDateString(date) ==
    "wd" \o ToString(date % 7) \o ", m" \o ToString(getMonth(date)) \o " " \o ToString(getDate(date))

\* a stream of Math.random() results in thirds of the unit interval: 0 is 0, 1 is 1/2 and
\* 2 is just below 1; the k-th call takes the k-th element, cyclically
RandomStreams == {<<0>>, <<2>>, <<0, 2, 1>>}

\* Math.floor(Math.random() * n) for the k-th call
RandomFloor(rnd, k, n) ==
    LET r == rnd[((k - 1) % Len(rnd)) + 1]
    IN  IF r = 0 THEN 0 ELSE IF r = 1 THEN n \div 2 ELSE n - 1

\* Math.round of a value given as the fraction num / den (den > 0)
Round(num, den) == (2 * num + den) \div (2 * den)

\* String.prototype.charCodeAt(0)
charCodeAt(c) ==
    IF c \in UpperSet THEN 64 + IndexIn(c, UpperChars)
    ELSE IF c \in DigitSet THEN 47 + IndexIn(c, DigitChars)
    ELSE IF c = " " THEN 32
    ELSE IF c = "!" THEN 33
    ELSE IF c = "'" THEN 39
    ELSE IF c = "," THEN 44
    ELSE IF c = "." THEN 46
    ELSE IF c = "?" THEN 63
    ELSE 96 + IndexIn(c, LowerChars)

\* body of a successful /weather response (temperatures in tenths of a degree)
LiveWeatherBody ==
    [name |-> "Paris", temp |-> 214, feels_like |-> 205, temp_min |-> 196, temp_max |-> 225,
     humidity |-> 60, speed |-> 4, icon |-> "04d", description |-> "overcast clouds"]

\* body of a successful /forecast response fetched on day `now`: two entries for each of
\* the days now .. now + 5
LiveForecastBody(now) ==
    [i \in 1..12 |->
        [date |-> now + ((i - 1) \div 2),
         temp |-> 180 + 7 * i,
         icon |-> IF i % 3 = 0 THEN "10d" ELSE "01d",
         description |-> IF i % 3 = 0 THEN "light rain" ELSE "clear sky"]]

\* the days on which a request is made: mid-month and close to the end of a month
Todays == {10, 28}

\* an HTTP exchange either fails (transport error or non-2xx status) or delivers a body
HttpOutcomes == {"ok", "fail"}

-----------------------------------------------------------------------------
(* Weather gateway: WeatherService *)

cityWeatherData ==
    <<[city |-> "New York",  temperature |-> 22, description |-> "Partly Cloudy", icon |-> "03d"],
      [city |-> "London",    temperature |-> 18, description |-> "Rainy",         icon |-> "10d"],
      [city |-> "Tokyo",     temperature |-> 26, description |-> "Clear Sky",     icon |-> "01d"],
      [city |-> "Sydney",    temperature |-> 28, description |-> "Sunny",         icon |-> "01d"],
      [city |-> "Paris",     temperature |-> 20, description |-> "Cloudy",        icon |-> "04d"],
      [city |-> "Berlin",    temperature |-> 17, description |-> "Light Rain",    icon |-> "09d"],
      [city |-> "Moscow",    temperature |-> 5,  description |-> "Snow",          icon |-> "13d"],
      [city |-> "Dubai",     temperature |-> 35, description |-> "Clear Sky",     icon |-> "01d"],
      [city |-> "Mumbai",    temperature |-> 32, description |-> "Humid",         icon |-> "50d"],
      [city |-> "Bengaluru", temperature |-> 27, description |-> "Partly Cloudy", icon |-> "02d"],
      [city |-> "Delhi",     temperature |-> 30, description |-> "Haze",          icon |-> "50d"],
      [city |-> "Singapore", temperature |-> 31, description |-> "Thunderstorm",  icon |-> "11d"]>>

conditions == <<"Sunny", "Partly Cloudy", "Cloudy", "Light Rain", "Clear Sky">>

\* icon of the condition with the 0-based index i
ConditionIcon(i) ==
    IF i = 0 THEN "01d" ELSE IF i = 1 THEN "02d" ELSE IF i = 2 THEN "04d"
    ELSE IF i = 3 THEN "10d" ELSE "01d"

\* normalizedLoc.split("").reduce((acc, char) => acc + char.charCodeAt(0), 0)
RECURSIVE HashOf(_)
HashOf(s) == IF Len(s) = 0 THEN 0 ELSE charCodeAt(Head(s)) + HashOf(Tail(s))

\* index in cityWeatherData of the first city contained in the location, 0 when none is
CityIndex(location) ==
    FirstIndex(cityWeatherData,
               LAMBDA d : Includes(toLowerCase(trim(location)), toLowerCase(d.city)))

\* the fallback record of a city of cityWeatherData
CityWeather(location, data, rnd) ==
    [location |-> location,
     temperature |-> data.temperature,
     description |-> data.description,
     humidity |-> RandomFloor(rnd, 1, 30) + 40,
     windSpeed |-> RandomFloor(rnd, 2, 10) + 2,
     icon |-> data.icon,
     feels_like |-> data.temperature - RandomFloor(rnd, 3, 3),
     temp_min |-> data.temperature - RandomFloor(rnd, 4, 5),
     temp_max |-> data.temperature + RandomFloor(rnd, 5, 5)]

\* the fallback record of any other location, derived from the hash of its name
HashedWeather(location, hash) ==
    LET temp == 15 + (hash % 20)
        descIndex == hash % Len(conditions)
    IN  [location |-> location,
         temperature |-> temp,
         description |-> conditions[descIndex + 1],
         humidity |-> 40 + (hash % 30),
         windSpeed |-> 2 + (hash % 10),
         icon |-> ConditionIcon(descIndex),
         feels_like |-> temp - (hash % 3),
         temp_min |-> temp - (hash % 5),
         temp_max |-> temp + (hash % 5)]

\* getFallbackWeatherData hashing the location as given, without trimming it
getFallbackWeatherData_untrimmed(location, rnd) ==
    With(CityIndex(location),
         LAMBDA c :
            IF c # 0 THEN CityWeather(location, cityWeatherData[c], rnd)
            ELSE With(HashOf(location), LAMBDA hash : HashedWeather(location, hash)))

\* WeatherService.getFallbackWeatherData
getFallbackWeatherData(location, rnd) ==
    With(CityIndex(location),
         LAMBDA c :
            IF c # 0 THEN CityWeather(location, cityWeatherData[c], rnd)
            ELSE With(HashOf(trim(location)), LAMBDA hash : HashedWeather(location, hash)))

\* WeatherService.getFallbackForecast
getFallbackForecast(location, days, now, rnd) ==
    LET baseTemp == getFallbackWeatherData(location, rnd).temperature
        used == IF CityIndex(location) # 0 THEN 5 ELSE 0
    IN  [i \in 1..days |->
            LET conditionIndex == RandomFloor(rnd, used + 2 * i, Len(conditions))
            IN  [date |-> toLocaleDateString(now + i),
                 temp |-> baseTemp + (RandomFloor(rnd, used + 2 * i - 1, 6) - 3),
                 description |-> conditions[conditionIndex + 1],
                 icon |-> ConditionIcon(conditionIndex)]]

\* what a gateway operation hands to its caller: a value, or an error it throws
Returned(value) == [threw |-> FALSE, value |-> value]
Thrown == [threw |-> TRUE]

\* the record built from a /weather body
WeatherRecord(data) ==
    [location |-> data.name,
     temperature |-> Round(data.temp, 10),
     description |-> data.description,
     humidity |-> data.humidity,
     windSpeed |-> data.speed,
     icon |-> data.icon,
     feels_like |-> Round(data.feels_like, 10),
     temp_min |-> Round(data.temp_min, 10),
     temp_max |-> Round(data.temp_max, 10)]

\* getCurrentWeather rethrowing the error of a failed request
getCurrentWeather_rethrow(location, http, rnd) ==
    IF http = "ok" THEN Returned(WeatherRecord(LiveWeatherBody)) ELSE Thrown

\* WeatherService.getCurrentWeather: the live record, or the fallback record when the
\* request fails
getCurrentWeather(location, http, rnd) ==
    IF http = "ok"
    THEN Returned(WeatherRecord(LiveWeatherBody))
    ELSE Returned(getFallbackWeatherData(location, rnd))

RECURSIVE SumSeq(_)
SumSeq(seq) == IF Len(seq) = 0 THEN 0 ELSE Head(seq) + SumSeq(Tail(seq))

Count(seq, v) == Cardinality({i \in 1..Len(seq) : seq[i] = v})

\* Object.entries(counts).sort((a, b) => b[1] - a[1])[0][0]: the most frequent value, the
\* one seen first among equally frequent ones
MostCommon(seq) ==
    LET best == {i \in 1..Len(seq) : \A j \in 1..Len(seq) : Count(seq, seq[j]) <= Count(seq, seq[i])}
    IN  seq[Min(best)]

\* forecastByDay after the entries of list were grouped; the groups are kept in insertion
\* order, each under the day of the month of its entries
RECURSIVE GroupByDay(_, _, _, _)
GroupByDay(list, groups, today, days) ==
    IF Len(list) = 0 THEN groups
    ELSE LET item == Head(list)
             day == getDate(item.date)
             at == FirstIndex(groups, LAMBDA g : g.day = day)
             next ==
                 IF day = today THEN groups
                 ELSE IF Len(groups) >= days /\ at = 0 THEN groups
                 ELSE IF at = 0
                 THEN Append(groups, [day |-> day, date |-> item.date, temps |-> <<item.temp>>,
                                      icons |-> <<item.icon>>,
                                      descriptions |-> <<item.description>>])
                 ELSE [groups EXCEPT ![at].temps = Append(@, item.temp),
                                     ![at].icons = Append(@, item.icon),
                                     ![at].descriptions = Append(@, item.description)]
         IN  GroupByDay(Tail(list), next, today, days)

\* Object.values(forecastByDay): the keys are integers, so the values come in ascending
\* key order
ObjectValues(groups) ==
    [i \in 1..Len(groups) |->
        groups[CHOOSE k \in 1..Len(groups) :
                  Cardinality({j \in 1..Len(groups) : groups[j].day < groups[k].day}) = i - 1]]

\* Array.prototype.slice(0, n)
Slice(seq, n) == SubSeq(seq, 1, IF n < Len(seq) THEN n ELSE Len(seq))

\* the forecast built from a /forecast body
ForecastOf(list, now, days) ==
    LET byDay == ObjectValues(GroupByDay(list, <<>>, getDate(now), days))
        forecast == [i \in 1..Len(byDay) |->
                        [date |-> toLocaleDateString(byDay[i].date),
                         temp |-> Round(SumSeq(byDay[i].temps), 10 * Len(byDay[i].temps)),
                         icon |-> MostCommon(byDay[i].icons),
                         description |-> MostCommon(byDay[i].descriptions)]]
    IN  Slice(forecast, days)

\* WeatherService.getForecast: the live forecast, or the fallback forecast when the
\* request fails
getForecast(location, days, http, now, rnd) ==
    IF http = "ok"
    THEN Returned(ForecastOf(LiveForecastBody(now), now, days))
    ELSE Returned(getFallbackForecast(location, days, now, rnd))

-----------------------------------------------------------------------------
(* Command interpreter, Weather branch: CommandProcessor.processWeatherCommand *)

\* the location named in the command, "New York" by default
ExtractLocation(command) ==
    With(PrepositionMatch(command, <<"in", "for", "at">>),
         LAMBDA locationMatch :
            IF locationMatch.found /\ locationMatch.group # "" THEN trim(locationMatch.group)
            ELSE "New York")

IsForecastRequest(command) ==
    \/ Includes(command, "forecast")
    \/ Includes(command, "tomorrow")
    \/ Includes(command, "week")
    \/ Includes(command, "next few days")

WeatherCall(op, location) == [target |-> "weather", op |-> op, location |-> location]

RECURSIVE ForecastLines(_)
ForecastLines(forecast) ==
    IF Len(forecast) = 0 THEN ""
    ELSE Head(forecast).date \o ": " \o ToString(Head(forecast).temp) \o "C, "
         \o Head(forecast).description \o "\n" \o ForecastLines(Tail(forecast))

CurrentSentence(weather) ==
    "The current weather in " \o weather.location \o " is " \o ToString(weather.temperature)
    \o "C with " \o weather.description \o ". The humidity is " \o ToString(weather.humidity)
    \o "% and wind speed is " \o ToString(weather.windSpeed) \o " m/s. It feels like "
    \o ToString(weather.feels_like) \o "C."

\* CommandProcessor.getFallbackWeatherData of lib/api.ts (a record without temp_min / temp_max)
apiGetFallbackWeatherData(location, rnd) ==
    With(getFallbackWeatherData(location, rnd),
         LAMBDA full : [f \in DOMAIN full \ {"temp_min", "temp_max"} |-> full[f]])

\* CommandProcessor.generateFallbackForecast of lib/api.ts (always five days)
generateFallbackForecast(location, now, rnd) ==
    LET baseTemp == apiGetFallbackWeatherData(location, rnd).temperature
        used == IF CityIndex(location) # 0 THEN 3 ELSE 0
    IN  [i \in 1..5 |->
            LET conditionIndex == RandomFloor(rnd, used + 2 * i, Len(conditions))
            IN  [date |-> toLocaleDateString(now + i),
                 temp |-> baseTemp + (RandomFloor(rnd, used + 2 * i - 1, 6) - 3),
                 description |-> conditions[conditionIndex + 1],
                 icon |-> ConditionIcon(conditionIndex)]]

EstimatedForecast(location, fallbackForecast) ==
    [success |-> TRUE,
     response |-> "Here's the estimated weather forecast for " \o location \o ":\n\n"
                  \o ForecastLines(fallbackForecast),
     data |-> [type |-> "forecast", location |-> location,
               forecast |-> fallbackForecast, commandType |-> "weather"]]

EstimatedCurrent(location, fallbackWeather) ==
    [success |-> TRUE,
     response |-> "The estimated current weather in " \o location \o " is "
                  \o ToString(fallbackWeather.temperature) \o "C with "
                  \o fallbackWeather.description \o ". The humidity is approximately "
                  \o ToString(fallbackWeather.humidity) \o "%.",
     data |-> [type |-> "current", weather |-> fallbackWeather,
               location |-> location, commandType |-> "weather"]]

\* the catch block of processWeatherCommand in lib/api.ts: estimated data
WeatherCatchApi(command, now, rnd) ==
    With(ExtractLocation(command),
         LAMBDA location :
            IF IsForecastRequest(command)
            THEN With(generateFallbackForecast(location, now, rnd),
                      LAMBDA fallbackForecast : EstimatedForecast(location, fallbackForecast))
            ELSE With(apiGetFallbackWeatherData(location, rnd),
                      LAMBDA fallbackWeather : EstimatedCurrent(location, fallbackWeather)))

\* the catch block of processWeatherCommand in services/command-processor: an apology
WeatherCatchServices ==
    [success |-> FALSE,
     response |-> "I'm having trouble getting the weather information right now. Please try again later."]

\* the result of processWeatherCommand when its gateway returned the forecast
ForecastResult(variant, location, forecast) ==
    [success |-> TRUE,
     response |-> "Here's the weather forecast for " \o location \o ":\n\n" \o ForecastLines(forecast),
     data |-> IF variant = "api"
              THEN [type |-> "forecast", location |-> location, forecast |-> forecast,
                    commandType |-> "weather"]
              ELSE [type |-> "forecast", location |-> location, forecast |-> forecast]]

\* the result of processWeatherCommand when its gateway returned the current weather
CurrentResult(variant, weather) ==
    [success |-> TRUE,
     response |-> CurrentSentence(weather),
     data |-> IF variant = "api"
              THEN [type |-> "current", weather |-> weather, location |-> weather.location,
                    commandType |-> "weather"]
              ELSE [type |-> "current", weather |-> weather]]

\* processWeatherCommand: the result and the gateway calls issued
processWeatherCommand(command, variant, http, now, rnd) ==
    With(ExtractLocation(command),
         LAMBDA location :
            With(IF IsForecastRequest(command) THEN getForecast(location, 5, http, now, rnd)
                 ELSE getCurrentWeather(location, http, rnd),
                 LAMBDA reply :
                    [calls |-> <<WeatherCall(IF IsForecastRequest(command) THEN "getForecast"
                                             ELSE "getCurrentWeather", location)>>,
                     result |->
                        IF reply.threw
                        THEN IF variant = "api" THEN WeatherCatchApi(command, now, rnd)
                             ELSE WeatherCatchServices
                        ELSE IF IsForecastRequest(command)
                        THEN ForecastResult(variant, location, reply.value)
                        ELSE CurrentResult(variant, reply.value)]))

-----------------------------------------------------------------------------
(* Weather widget: the fallback generators of WeatherDisplay *)

\* cityWeatherData of the widget: the cities of the gateway and eight more
widgetCityWeatherData ==
    cityWeatherData \o
    <<[city |-> "Hong Kong",   temperature |-> 29, description |-> "Cloudy",           icon |-> "04d"],
      [city |-> "Cairo",       temperature |-> 33, description |-> "Clear Sky",        icon |-> "01d"],
      [city |-> "Rome",        temperature |-> 24, description |-> "Sunny",            icon |-> "01d"],
      [city |-> "Bangkok",     temperature |-> 32, description |-> "Scattered Clouds", icon |-> "03d"],
      [city |-> "Istanbul",    temperature |-> 21, description |-> "Partly Cloudy",    icon |-> "02d"],
      [city |-> "Seoul",       temperature |-> 19, description |-> "Cloudy",           icon |-> "04d"],
      [city |-> "Mexico City", temperature |-> 23, description |-> "Partly Cloudy",    icon |-> "02d"],
      [city |-> "Amsterdam",   temperature |-> 16, description |-> "Light Rain",       icon |-> "09d"]>>

\* the widget's record of a city of its table: { location: loc, ...data, humidity }
widgetCityWeather(loc, data, rnd) ==
    [location |-> loc,
     temperature |-> data.temperature,
     description |-> data.description,
     icon |-> data.icon,
     humidity |-> RandomFloor(rnd, 1, 30) + 40]

\* the widget's record of any other location
widgetHashedWeather(loc, hash) ==
    [location |-> loc,
     temperature |-> 15 + (hash % 20),
     description |-> conditions[(hash % Len(conditions)) + 1],
     icon |-> ConditionIcon(hash % Len(conditions)),
     humidity |-> 40 + (hash % 30)]

\* getFallbackWeatherData of components/weather-display
widgetGetFallbackWeatherData(loc, rnd) ==
    With(FirstIndex(widgetCityWeatherData,
                    LAMBDA d : Includes(toLowerCase(trim(loc)), toLowerCase(d.city))),
         LAMBDA c :
            IF c # 0 THEN widgetCityWeather(loc, widgetCityWeatherData[c], rnd)
            ELSE With(HashOf(trim(loc)), LAMBDA hash : widgetHashedWeather(loc, hash)))

\* generateFallbackForecast of components/weather-display: five days around the
\* temperature the widget shows (weatherData.temperature || 22); loc is not used
widgetGenerateFallbackForecast(loc, shown, now, rnd) ==
    [i \in 1..5 |->
        [date |-> toLocaleDateString(now + i),
         temp |-> (IF shown # 0 THEN shown ELSE 22) + (RandomFloor(rnd, 2 * i - 1, 6) - 3),
         description |-> conditions[RandomFloor(rnd, 2 * i, Len(conditions)) + 1],
         icon |-> ConditionIcon(RandomFloor(rnd, 2 * i, Len(conditions)))]]

-----------------------------------------------------------------------------
(* News gateway: NewsService *)

\* articles of a successful news response
LiveArticles ==
    <<[title |-> "Markets rally", description |-> "", url |-> "https://news.example/1",
       urlToImage |-> "", source |-> [name |-> "Daily Wire"], publishedAt |-> 10],
      [title |-> "Storm warning", description |-> "Heavy rain expected",
       url |-> "https://news.example/2", urlToImage |-> "https://news.example/2.png",
       source |-> [name |-> ""], publishedAt |-> 11]>>

\* a || b on strings
OrElse(a, b) == IF a # "" THEN a ELSE b

NewsArticles(articles) ==
    [i \in 1..Len(articles) |->
        [title |-> articles[i].title,
         description |-> OrElse(articles[i].description, "No description available"),
         url |-> articles[i].url,
         urlToImage |-> OrElse(articles[i].urlToImage, "/placeholder.svg?height=200&width=300"),
         source |-> [name |-> OrElse(articles[i].source.name, "Unknown Source")],
         publishedAt |-> "day " \o ToString(articles[i].publishedAt)]]

\* getTopHeadlines swallowing the error of a failed request
getTopHeadlines_swallow(country, category, pageSize, http) ==
    IF http = "ok" THEN Returned(NewsArticles(LiveArticles)) ELSE Returned(<<>>)

\* NewsService.getTopHeadlines: the articles, or the error rethrown to the caller
getTopHeadlines(country, category, pageSize, http) ==
    IF http = "ok" THEN Returned(NewsArticles(LiveArticles)) ELSE Thrown

\* NewsService.searchNews: the articles, or the error rethrown to the caller
searchNews(query, pageSize, http) ==
    IF http = "ok" THEN Returned(NewsArticles(LiveArticles)) ELSE Thrown

getAvailableCategories ==
    <<"business", "entertainment", "general", "health", "science", "sports", "technology">>

-----------------------------------------------------------------------------
(* Command interpreter, News branch: CommandProcessor.processNewsCommand *)

\* an undefined category or search query is the empty text
Undefined == ""

\* the first available category named in the command
ExtractCategory(command) ==
    LET c == FirstIndex(getAvailableCategories, LAMBDA cat : Includes(command, cat))
    IN  IF c = 0 THEN Undefined ELSE getAvailableCategories[c]

\* the search query after "about" / "on"
ExtractSearchQuery(command) ==
    IF Includes(command, "about") \/ Includes(command, "on")
    THEN With(PrepositionMatch(command, <<"about", "on">>),
              LAMBDA searchMatch :
                 IF searchMatch.found /\ searchMatch.group # "" THEN trim(searchMatch.group)
                 ELSE Undefined)
    ELSE Undefined

RECURSIVE ArticleLines(_, _)
ArticleLines(articles, index) ==
    IF index > Len(articles) THEN ""
    ELSE ToString(index) \o ". " \o articles[index].title \o " - " \o articles[index].source.name
         \o "\n" \o ArticleLines(articles, index + 1)

NewsCatch ==
    [success |-> FALSE,
     response |-> "I'm having trouble getting the news information right now. Please try again later."]

\* the gateway call processNewsCommand makes
NewsCall(category, searchQuery) ==
    IF searchQuery # ""
    THEN [target |-> "news", op |-> "searchNews", query |-> searchQuery, pageSize |-> 5]
    ELSE [target |-> "news", op |-> "getTopHeadlines", country |-> "us",
          category |-> category, pageSize |-> 5]

NewsData(variant, articles, category, searchQuery) ==
    IF variant = "api"
    THEN [type |-> "headlines", articles |-> articles, category |-> category,
          searchQuery |-> searchQuery, commandType |-> "news"]
    ELSE [type |-> "headlines", articles |-> articles, category |-> category,
          searchQuery |-> searchQuery]

\* the result of processNewsCommand when its gateway returned the articles
NewsResult(variant, articles, category, searchQuery) ==
    [success |-> TRUE,
     response |-> (IF searchQuery # ""
                   THEN "Here are the latest news articles about " \o searchQuery \o ":\n\n"
                   ELSE "Here are the latest " \o category \o " news headlines:\n\n")
                  \o ArticleLines(articles, 1)
                  \o "\nWould you like me to read any of these articles in detail?",
     data |-> NewsData(variant, articles, category, searchQuery)]

\* processNewsCommand once category and search query are extracted
NewsOutcome(variant, category, searchQuery, http) ==
    With(IF searchQuery # "" THEN searchNews(searchQuery, 5, http)
         ELSE getTopHeadlines("us", category, 5, http),
         LAMBDA reply :
            [calls |-> <<NewsCall(category, searchQuery)>>,
             result |-> IF reply.threw THEN NewsCatch
                        ELSE NewsResult(variant, reply.value, category, searchQuery)])

\* processNewsCommand preferring the category headlines to the search
processNewsCommand_categoryFirst(command, variant, http) ==
    With(ExtractCategory(command),
         LAMBDA category :
            With(IF category = "" THEN ExtractSearchQuery(command) ELSE Undefined,
                 LAMBDA searchQuery : NewsOutcome(variant, category, searchQuery, http)))

\* processNewsCommand: the result and the gateway calls issued
processNewsCommand(command, variant, http) ==
    With(ExtractCategory(command),
         LAMBDA category :
            With(ExtractSearchQuery(command),
                 LAMBDA searchQuery : NewsOutcome(variant, category, searchQuery, http)))

-----------------------------------------------------------------------------
(* Command interpreter: CommandProcessor.processCommand *)

\* an unknown-command result that carries a data field
UnknownResult_withData ==
    [success |-> FALSE,
     response |-> "I'm not sure how to help with that.",
     data |-> [commandType |-> "unknown"]]

UnknownResult ==
    [success |-> FALSE,
     response |-> "I'm not sure how to help with that. You can ask me about the weather, news, or control your smart home devices."]

\* Classify with the Weather test ahead of the Home test
Classify_weatherFirst(command) ==
    IF isWeatherCommand(command) THEN "weather"
    ELSE IF isHomeCommand(command) THEN "home"
    ELSE IF isNewsCommand(command) THEN "news"
    ELSE "unclassified"

\* Classify handing a command without any keyword to the News branch
Classify_newsDefault(command) ==
    IF isHomeCommand(command) THEN "home"
    ELSE IF isWeatherCommand(command) THEN "weather"
    ELSE "news"

\* the category whose branch handles the (lower-cased, trimmed) command
Classify(command) ==
    IF isHomeCommand(command) THEN "home"
    ELSE IF isWeatherCommand(command) THEN "weather"
    ELSE IF isNewsCommand(command) THEN "news"
    ELSE "unclassified"

\* what a processCommand call did: it returned (it never throws), with the result of its
\* branch, the calls the branch issued and the registry afterwards
Outcome(commandResult, made, devs) ==
    [threw |-> FALSE, result |-> commandResult, calls |-> made, devices |-> devs]

\* the branch chosen for the command
Dispatch(branch, command, devs, variant, http, now, rnd) ==
    IF branch = "home"
    THEN With(processHomeCommand(command, devs, variant),
              LAMBDA home : Outcome(home.result, home.calls, home.devices))
    ELSE IF branch = "weather"
    THEN With(processWeatherCommand(command, variant, http, now, rnd),
              LAMBDA weather : Outcome(weather.result, weather.calls, devs))
    ELSE IF branch = "news"
    THEN With(processNewsCommand(command, variant, http),
              LAMBDA news : Outcome(news.result, news.calls, devs))
    ELSE Outcome(UnknownResult, <<>>, devs)

\* processCommand: the result, the calls issued, the registry afterwards, and whether the
\* call threw instead of returning
processCommand(raw, devs, variant, http, now, rnd) ==
    With(trim(toLowerCase(raw)),
         LAMBDA command :
            With(Classify(command),
                 LAMBDA branch : Dispatch(branch, command, devs, variant, http, now, rnd)))

-----------------------------------------------------------------------------
(* Dispatch facade: MisoService *)

getCommandType(raw) ==
    LET m == toLowerCase(raw)
    IN  IF \/ Includes(m, "light") \/ Includes(m, "turn on") \/ Includes(m, "turn off")
           \/ Includes(m, "thermostat") \/ Includes(m, "temperature") \/ Includes(m, "switch")
        THEN "home"
        ELSE IF \/ Includes(m, "weather") \/ Includes(m, "temperature") \/ Includes(m, "forecast")
                \/ Includes(m, "rain") \/ Includes(m, "sunny")
        THEN "weather"
        ELSE IF Includes(m, "news") \/ Includes(m, "headlines") \/ Includes(m, "articles")
        THEN "news"
        ELSE "unknown"

NotSpecial == [isSpecialCommand |-> FALSE]

\* processMessage wrapping every returned result as a special command
processMessage_always(raw, outcome) ==
    IF outcome.threw THEN NotSpecial
    ELSE IF outcome.result.success
    THEN [isSpecialCommand |-> TRUE,
          response |-> outcome.result.response,
          commandType |-> getCommandType(raw),
          data |-> outcome.result.data]
    ELSE [isSpecialCommand |-> TRUE,
          response |-> outcome.result.response,
          commandType |-> getCommandType(raw)]

\* processMessage taking the command type from the interpreter's result
processMessage_unified(raw, outcome) ==
    IF outcome.threw THEN NotSpecial
    ELSE IF outcome.result.success
    THEN [isSpecialCommand |-> TRUE,
          response |-> outcome.result.response,
          commandType |-> IF Has(outcome.result.data, "commandType")
                          THEN outcome.result.data.commandType
                          ELSE getCommandType(raw),
          data |-> outcome.result.data]
    ELSE NotSpecial

\* MisoService.processMessage, given what processCommand did
processMessage(raw, outcome) ==
    IF outcome.threw THEN NotSpecial
    ELSE IF outcome.result.success
    THEN [isSpecialCommand |-> TRUE,
          response |-> outcome.result.response,
          commandType |-> getCommandType(raw),
          data |-> outcome.result.data]
    ELSE NotSpecial

-----------------------------------------------------------------------------
(* Inputs *)

\* what users say to the assistant
Utterances ==
    {"turn on the kitchen lights",
     "  Turn ON the Kitchen Lights ",
     "turn on the kitchen",
     "switch on the lights",
     "Turn off the TV",
     "turn off the tv and turn on the coffee maker",
     "dim the bedroom light",
     "brighten the lamp",
     "brighten the kitchen light",
     "dim and brighten the bedroom light",
     "living room thermostat temperature",
     "set the living room thermostat temperature to 25 degrees",
     "turn on the indoor temperature",
     "turn on the living room speaker",
     "set something please",
     "what is the temperature in Paris",
     "is the weather cold in the bathroom",
     "what's the weather in Paris",
     "What's the weather at Delhi?",
     "will it rain today in London",
     "weather forecast for Tokyo, please",
     "how hot is it",
     "is it sunny in  .",
     "show me news about elections",
     "latest sports headlines",
     "latest news on technology",
     "health and business report",
     "news",
     "sports news on  .",
     "hello there",
     "tell me a joke"}

NotCalled == [called |-> FALSE]

Null == [null |-> TRUE]

Greeting ==
    [role |-> "assistant",
     content |-> "Hello! I'm Miso, your smart virtual assistant. How can I help you today?"]

InitRegistry ==
    /\ devices = initializeMockDevices
    /\ connected = FALSE
    /\ regReturn = NotCalled
    /\ regOps = 0

InitCommand ==
    /\ message = ""
    /\ result = NotCalled
    /\ facade = NotCalled
    /\ calls = <<>>
    /\ met = NotCalled
    /\ ncmd = 0

InitChat ==
    /\ input = ""
    /\ isProcessing = FALSE
    /\ messages = <<Greeting>>
    /\ special = Null
    /\ turns = <<>>
    /\ pc = <<>>

InitWeather ==
    /\ gw = NotCalled
    /\ gwOps = 0

Init ==
    /\ impl \in {"api", "services"}
    /\ InitRegistry
    /\ InitCommand
    /\ InitChat
    /\ InitWeather

-----------------------------------------------------------------------------
(* The interpreter behind its facade: one misoService.processMessage call per step *)

ProcessMessage(raw, http, now, rnd) ==
    /\ ncmd < MaxCommands
    /\ \E outcome \in {processCommand(raw, devices, impl, http, now, rnd)} :
           /\ message' = raw
           /\ result' = outcome.result
           /\ calls' = outcome.calls
           /\ devices' = outcome.devices
           /\ facade' = processMessage(raw, outcome)
    /\ met' = [http |-> http, now |-> now, rnd |-> rnd, before |-> devices]
    /\ ncmd' = ncmd + 1
    /\ UNCHANGED <<impl, connected, regReturn, regOps>>
    /\ UNCHANGED uiVars
    /\ UNCHANGED gwVars

\* the HTTP exchanges, clock and random numbers a call can meet: a command that issues no
\* request meets none, a news request only an HTTP outcome
Environments(raw) ==
    LET branch == Classify(trim(toLowerCase(raw)))
    IN  IF branch = "weather"
        THEN [http : {"ok"}, now : Todays, rnd : {<<0>>}]
             \cup [http : {"fail"}, now : Todays, rnd : RandomStreams]
        ELSE IF branch = "news"
        THEN [http : HttpOutcomes, now : {10}, rnd : {<<0>>}]
        ELSE [http : {"ok"}, now : {10}, rnd : {<<0>>}]

NextCommand ==
    \E raw \in Utterances :
        \E env \in Environments(raw) : ProcessMessage(raw, env.http, env.now, env.rnd)

SpecCommand == Init /\ [][NextCommand]_vars

-----------------------------------------------------------------------------
(* The registry used directly (as the home controls widget and any other caller may) *)

\* entity ids callers pass: some of each category and one that is not registered
EntityInputs ==
    {"light.kitchen", "light.bedroom", "climate.living_room", "switch.tv",
     "sensor.temperature", "media_player.living_room", "light.garage"}

\* states callers pass to setState
StateInputs == {"on", "off", "unavailable"}

\* the payloads of service calls: the entity alone, or with one more parameter
ServicePayloads ==
    [entity_id : EntityInputs]
    \cup [entity_id : EntityInputs, brightness : {0, 100}]
    \cup [entity_id : EntityInputs, temperature : {24}]
    \cup [entity_id : EntityInputs, volume_level : {8}]

ServiceDomains == {"light", "switch", "climate", "media_player", "sensor"}

ServiceNames == {"turn_on", "turn_off", "set_temperature", "volume_set"}

RegistryOp(op, value) ==
    /\ regOps < MaxRegistryOps
    /\ regOps' = regOps + 1
    /\ regReturn' = [op |-> op, value |-> value]
    /\ UNCHANGED impl
    /\ UNCHANGED cmdVars
    /\ UNCHANGED uiVars
    /\ UNCHANGED gwVars

Connect ==
    /\ connected' = TRUE
    /\ UNCHANGED devices
    /\ RegistryOp("connect", TRUE)

IsConnected ==
    /\ UNCHANGED <<devices, connected>>
    /\ RegistryOp("isConnected", connected)

GetStates ==
    /\ UNCHANGED <<devices, connected>>
    /\ RegistryOp("getStates", getStates(devices))

GetState(entityId) ==
    /\ UNCHANGED <<devices, connected>>
    /\ RegistryOp("getState", EntityReturn(devices, entityId))

SetState(entityId, state) ==
    /\ devices' = setState(devices, entityId, state)
    /\ UNCHANGED connected
    /\ RegistryOp("setState", EntityReturn(setState(devices, entityId, state), entityId))

CallService(domain, service, data) ==
    /\ devices' = callService(devices, domain, service, data)
    /\ UNCHANGED connected
    /\ RegistryOp("callService", ServiceAck)

GetAvailableDevices ==
    /\ UNCHANGED <<devices, connected>>
    /\ RegistryOp("getAvailableDevices", [c \in DOMAIN devices |-> DOMAIN devices[c]])

GetDeviceFriendlyNames ==
    /\ UNCHANGED <<devices, connected>>
    /\ RegistryOp("getDeviceFriendlyNames", getDeviceFriendlyNames(devices))

NextRegistry ==
    \/ Connect
    \/ IsConnected
    \/ GetStates
    \/ \E entityId \in EntityInputs : GetState(entityId)
    \/ \E entityId \in EntityInputs, state \in StateInputs : SetState(entityId, state)
    \/ \E domain \in ServiceDomains, service \in ServiceNames, data \in ServicePayloads :
           CallService(domain, service, data)
    \/ GetAvailableDevices
    \/ GetDeviceFriendlyNames

SpecRegistry == Init /\ [][NextRegistry]_vars

-----------------------------------------------------------------------------
(* The weather gateway and the fallback generators called directly *)

\* locations callers ask for: two cities of the fallback tables, a text naming two of them
\* in lower case, and a place that is in no table, written with spaces around it
GatewayLocations == {"Paris", "Moscow", " paris or london ", " Springfield "}

\* day counts callers request (the command processor and the widget request 5)
ForecastDays == {3, 5}

\* temperatures the widget can be showing when its generator runs: its initial 22, the
\* reading of another city, and 0
ShownTemperatures == {22, 5, 0}

\* the other components are not involved in a direct call
GatewayFrame ==
    /\ UNCHANGED impl
    /\ UNCHANGED regVars
    /\ UNCHANGED cmdVars
    /\ UNCHANGED uiVars

\* one direct call: what was called, with which arguments in which environment, and the
\* value it returned or the error it threw
GatewayOp(op, args, reply) ==
    /\ gwOps < MaxGatewayOps
    /\ gwOps' = gwOps + 1
    /\ gw' = [op |-> op, args |-> args, reply |-> reply]

GetCurrentWeather(location, http, rnd) ==
    /\ GatewayOp("getCurrentWeather",
                 [location |-> location, http |-> http, rnd |-> rnd],
                 getCurrentWeather(location, http, rnd))
    /\ GatewayFrame

GetForecast(location, days, http, now, rnd) ==
    /\ GatewayOp("getForecast",
                 [location |-> location, days |-> days, http |-> http, now |-> now, rnd |-> rnd],
                 getForecast(location, days, http, now, rnd))
    /\ GatewayFrame

GetFallbackWeatherData(location, rnd) ==
    /\ GatewayOp("WeatherService.getFallbackWeatherData",
                 [location |-> location, rnd |-> rnd],
                 Returned(getFallbackWeatherData(location, rnd)))
    /\ GatewayFrame

GetFallbackForecast(location, days, now, rnd) ==
    /\ GatewayOp("WeatherService.getFallbackForecast",
                 [location |-> location, days |-> days, now |-> now, rnd |-> rnd],
                 Returned(getFallbackForecast(location, days, now, rnd)))
    /\ GatewayFrame

ApiGetFallbackWeatherData(location, rnd) ==
    /\ GatewayOp("CommandProcessor.getFallbackWeatherData",
                 [location |-> location, rnd |-> rnd],
                 Returned(apiGetFallbackWeatherData(location, rnd)))
    /\ GatewayFrame

GenerateFallbackForecast(location, now, rnd) ==
    /\ GatewayOp("CommandProcessor.generateFallbackForecast",
                 [location |-> location, days |-> 5, now |-> now, rnd |-> rnd],
                 Returned(generateFallbackForecast(location, now, rnd)))
    /\ GatewayFrame

WidgetGetFallbackWeatherData(loc, rnd) ==
    /\ GatewayOp("WeatherDisplay.getFallbackWeatherData",
                 [location |-> loc, rnd |-> rnd],
                 Returned(widgetGetFallbackWeatherData(loc, rnd)))
    /\ GatewayFrame

WidgetGenerateFallbackForecast(loc, shown, now, rnd) ==
    /\ GatewayOp("WeatherDisplay.generateFallbackForecast",
                 [location |-> loc, days |-> 5, shown |-> shown, now |-> now, rnd |-> rnd],
                 Returned(widgetGenerateFallbackForecast(loc, shown, now, rnd)))
    /\ GatewayFrame

NextWeather ==
    \E location \in GatewayLocations, rnd \in RandomStreams :
        \/ \E http \in HttpOutcomes : GetCurrentWeather(location, http, rnd)
        \/ \E days \in ForecastDays, http \in HttpOutcomes, now \in Todays :
               GetForecast(location, days, http, now, rnd)
        \/ GetFallbackWeatherData(location, rnd)
        \/ \E days \in ForecastDays, now \in Todays : GetFallbackForecast(location, days, now, rnd)
        \/ ApiGetFallbackWeatherData(location, rnd)
        \/ \E now \in Todays : GenerateFallbackForecast(location, now, rnd)
        \/ WidgetGetFallbackWeatherData(location, rnd)
        \/ \E shown \in ShownTemperatures, now \in Todays :
               WidgetGenerateFallbackForecast(location, shown, now, rnd)

SpecWeather == Init /\ [][NextWeather]_vars

-----------------------------------------------------------------------------
(* The chat component: MisoAssistant *)

\* what the user types into the text area
TypedInputs ==
    {"turn on the kitchen lights", "what's the weather in Paris", "show me news about elections",
     "is the weather cold in the bathroom", "hello there", "   "}

\* the day and the random numbers of the chat session
ChatDay == CHOOSE now \in Todays : TRUE
ChatRandom == CHOOSE rnd \in RandomStreams : TRUE

\* outcomes of the language-model request made by the /api/chat route
LlmOutcomes == {"ok", "fail"}

LlmReply == "Hello! How can I help?"

Apology == "I'm sorry, I encountered an error while processing your request. Please try again later."

UserMessage(content) == [role |-> "user", content |-> content]

AssistantMessage(content) == [role |-> "assistant", content |-> content]

\* the steps of handleSendMessage after misoService.processMessage returned `reply`, for
\* the turn with index t: a special command is answered at once, anything else goes to
\* the /api/chat route
AfterProcessMessage(t, reply, made) ==
    IF reply.isSpecialCommand /\ reply.response # ""
    THEN /\ messages' = Append(messages, AssistantMessage(reply.response))
         /\ special' = IF Has(reply, "data") /\ reply.commandType # ""
                       THEN [type |-> reply.commandType, data |-> reply.data]
                       ELSE special
         /\ isProcessing' = FALSE
         /\ pc' = [pc EXCEPT ![t] = "done"]
         /\ turns' = [turns EXCEPT ![t].calls = @ \o made,
                                   ![t].facade = reply, ![t].replies = @ + 1]
    ELSE /\ UNCHANGED <<messages, special, isProcessing>>
         /\ pc' = [pc EXCEPT ![t] = "chat"]
         /\ turns' = [turns EXCEPT ![t].calls = @ \o made, ![t].facade = reply]

\* the widget rendered under the transcript for the special command result: the weather
\* display for type "weather" with data, the news display for type "news" with articles,
\* the home controls for type "home", and nothing for any other type
DisplayedWidget(shown) ==
    IF shown = Null THEN "none"
    ELSE IF shown.type = "weather" THEN "weather"
    ELSE IF shown.type = "news" /\ Has(shown.data, "articles") THEN "news"
    ELSE IF shown.type = "home" THEN "home"
    ELSE "none"

\* handleSendMessage up to its first wait for the network.  A home command or an
\* unclassified text is interpreted without any request, so its processMessage call
\* completes before any other event is handled; a weather or news command waits for its
\* gateway.
handleSendMessage ==
    /\ trim(input) # ""
    /\ Len(turns) < MaxTurns
    /\ input' = ""
    /\ \E content \in {trim(input)} :
       \E branch \in {Classify(trim(toLowerCase(content)))} :
       \E t \in {Len(turns) + 1} :
       \E turn \in {[content |-> content, calls |-> <<>>,
                     facade |-> NotCalled, replies |-> 0]} :
          IF branch \in {"weather", "news"}
          THEN /\ messages' = Append(messages, UserMessage(content))
               /\ isProcessing' = TRUE
               /\ special' = Null
               /\ turns' = Append(turns, turn)
               /\ pc' = Append(pc, "gateway")
               /\ UNCHANGED devices
          ELSE \E outcome \in {processCommand(content, devices, impl, "ok", 10, <<0>>)} :
               \E reply \in {processMessage(content, outcome)} :
                  /\ devices' = outcome.devices
                  /\ IF reply.isSpecialCommand /\ reply.response # ""
                     THEN /\ messages' = messages \o <<UserMessage(content),
                                                       AssistantMessage(reply.response)>>
                          /\ special' = IF Has(reply, "data") /\ reply.commandType # ""
                                        THEN [type |-> reply.commandType, data |-> reply.data]
                                        ELSE Null
                          /\ isProcessing' = FALSE
                          /\ turns' = Append(turns, [turn EXCEPT !.calls = outcome.calls,
                                                                 !.facade = reply,
                                                                 !.replies = 1])
                          /\ pc' = Append(pc, "done")
                     ELSE /\ messages' = Append(messages, UserMessage(content))
                          /\ special' = Null
                          /\ isProcessing' = TRUE
                          /\ turns' = Append(turns, [turn EXCEPT !.calls = outcome.calls,
                                                                 !.facade = reply])
                          /\ pc' = Append(pc, "chat")
    /\ UNCHANGED <<impl, connected, regReturn, regOps>>
    /\ UNCHANGED cmdVars
    /\ UNCHANGED gwVars

\* onChange of the text area (it is disabled only while listening); a text is typed in
\* one go into the empty text area, as long as another message can be accepted
TypeInput(text) ==
    /\ input = ""
    /\ Len(turns) < MaxTurns
    /\ input' = text
    /\ UNCHANGED <<impl, isProcessing, messages, special, turns, pc>>
    /\ UNCHANGED regVars
    /\ UNCHANGED cmdVars
    /\ UNCHANGED gwVars

\* onClick of the Send button, which is disabled while the input is blank or a turn is
\* being processed
SendButton ==
    /\ ~(trim(input) = "" \/ isProcessing)
    /\ handleSendMessage

\* handleKeyDown for Enter without Shift
EnterKey == handleSendMessage

\* the weather or news gateway answers turn t: processMessage returns and
\* handleSendMessage continues
GatewayReturn(t, http, now, rnd) ==
    /\ pc[t] = "gateway"
    /\ \E outcome \in {processCommand(turns[t].content, devices, impl, http, now, rnd)} :
       \E reply \in {processMessage(turns[t].content, outcome)} :
       \E made \in {outcome.calls} :
          /\ devices' = outcome.devices
          /\ AfterProcessMessage(t, reply, made)
    /\ UNCHANGED <<impl, input, connected, regReturn, regOps>>
    /\ UNCHANGED cmdVars
    /\ UNCHANGED gwVars

\* what the POST handler of /api/chat answers: it interprets the last user message itself
\* (with the command processor of lib/services and the server's own registry) and asks the
\* language model only when that did not succeed
ChatRoute(content, http, now, rnd, llm) ==
    With(processCommand(content, initializeMockDevices, "services", http, now, rnd),
         LAMBDA outcome :
            IF ~outcome.threw /\ outcome.result.success
            THEN [ok |-> TRUE, content |-> outcome.result.response, calls |-> outcome.calls]
            ELSE IF llm = "ok"
            THEN [ok |-> TRUE, content |-> LlmReply,
                  calls |-> Append(outcome.calls, [target |-> "llm"])]
            ELSE [ok |-> FALSE, calls |-> Append(outcome.calls, [target |-> "llm"])])

\* ChatReturn without the catch block: on an error status nothing is appended
ChatReturn_noCatch(t, http, now, rnd, llm) ==
    /\ pc[t] = "chat"
    /\ \E response \in {ChatRoute(turns[t].content, http, now, rnd, llm)} :
          /\ messages' = IF response.ok
                         THEN Append(messages, AssistantMessage(response.content))
                         ELSE messages
          /\ pc' = [pc EXCEPT ![t] = "done"]
          /\ turns' = [turns EXCEPT ![t].replies = IF response.ok THEN @ + 1 ELSE @,
                                    ![t].calls = @ \o response.calls]
    /\ isProcessing' = FALSE
    /\ UNCHANGED <<impl, input, special>>
    /\ UNCHANGED regVars
    /\ UNCHANGED cmdVars
    /\ UNCHANGED gwVars

\* the /api/chat request of turn t returns: the reply, or on an error status the
\* apology, is appended and processing ends
ChatReturn(t, http, now, rnd, llm) ==
    /\ pc[t] = "chat"
    /\ \E response \in {ChatRoute(turns[t].content, http, now, rnd, llm)} :
          /\ messages' = Append(messages,
                                AssistantMessage(IF response.ok THEN response.content ELSE Apology))
          /\ pc' = [pc EXCEPT ![t] = "done"]
          /\ turns' = [turns EXCEPT ![t].replies = @ + 1,
                                    ![t].calls = @ \o response.calls]
    /\ isProcessing' = FALSE
    /\ UNCHANGED <<impl, input, special>>
    /\ UNCHANGED regVars
    /\ UNCHANGED cmdVars
    /\ UNCHANGED gwVars

handleClearConversation ==
    /\ messages # <<Greeting>>
    /\ messages' = <<Greeting>>
    /\ UNCHANGED <<impl, input, isProcessing, special, turns, pc>>
    /\ UNCHANGED regVars
    /\ UNCHANGED cmdVars
    /\ UNCHANGED gwVars

Next ==
    \/ \E text \in TypedInputs : TypeInput(text)
    \/ SendButton
    \/ EnterKey
    \/ \E t \in 1..Len(turns), http \in HttpOutcomes :
           GatewayReturn(t, http, ChatDay, ChatRandom)
    \/ \E t \in 1..Len(turns), http \in HttpOutcomes, llm \in LlmOutcomes :
           ChatReturn(t, http, ChatDay, ChatRandom, llm)
    \/ handleClearConversation

Spec == Init /\ [][Next]_vars

\* a turn stops waiting for its gateway, for /api/chat.  In a behaviour of the component
\* these are the steps of GatewayReturn and of ChatReturn, which are enabled for turn t
\* exactly when pc[t] is "gateway", respectively "chat"
GatewayAnswers ==
    \E t \in 1..Len(pc) :
        /\ pc[t] = "gateway"
        /\ pc' \in {[pc EXCEPT ![t] = "chat"], [pc EXCEPT ![t] = "done"]}

ChatAnswers ==
    \E t \in 1..Len(pc) :
        /\ pc[t] = "chat"
        /\ pc' = [pc EXCEPT ![t] = "done"]

\* every request eventually returns or fails: a turn waiting for its gateway or for
\* /api/chat does not wait for ever
RequestsReturn == WF_pc(GatewayAnswers) /\ WF_pc(ChatAnswers)

SpecLive == Init /\ [][Next]_vars /\ RequestsReturn

-----------------------------------------------------------------------------
(* Properties of the interpreter and its facade (specification SpecCommand) *)

\* the command the interpreter works on: the lower-cased, trimmed message
CommandOf(raw) == trim(toLowerCase(raw))

Command == CommandOf(message)

OnlyRegistryCalls(log) == \A i \in 1..Len(log) : log[i].target = "registry"

\* C1: an utterance with at least one Home keyword and at least one Weather keyword is
\* handled by the Home branch, and no weather or news gateway call is made for it
C1_HomeBeforeWeather ==
    (ncmd > 0 /\ AnyKeyword(Command, homeKeywords) /\ AnyKeyword(Command, weatherKeywords))
        => /\ OnlyRegistryCalls(calls)
           /\ result.success
           /\ result.data.commandType = "home"

C1_Witness ==
    /\ ncmd > 0
    /\ Includes(Command, "temperature")
    /\ AnyKeyword(Command, homeKeywords)
    /\ AnyKeyword(Command, weatherKeywords)
    /\ result.data.commandType = "home"

\* the command names no device: no friendly name, no room and no "light"
NoEntityHint(command, devs) ==
    /\ \A c \in DOMAIN devs : \A e \in DOMAIN devs[c] :
           ~Includes(command, toLowerCase(devs[c][e].friendly_name))
    /\ \A i \in 1..Len(rooms) : ~Includes(command, rooms[i])
    /\ ~Includes(command, "light")

\* C2: every utterance classified Home yields success=true; when no entity is resolved
\* the result carries data.simulated=true, no registry service call is made and the
\* registry state is unchanged
C2_HomeAlwaysSucceeds ==
    (ncmd > 0 /\ isHomeCommand(Command))
        => /\ result.success
           /\ NoEntityHint(Command, met.before)
                 => /\ calls = <<>>
                    /\ devices = met.before
                    /\ Has(result.data, "simulated")
                    /\ result.data.simulated

C2_Witness ==
    /\ ncmd > 0
    /\ isHomeCommand(Command)
    /\ NoEntityHint(Command, devices)
    /\ met.before # initializeMockDevices
    /\ devices = met.before
    /\ result.success
    /\ result.data.simulated

\* C3: every utterance classified Weather yields success=true with a weather payload (a
\* current record or a forecast list), when the gateway request succeeds and when it fails
C3_WeatherAlwaysSucceeds ==
    (ncmd > 0 /\ ~isHomeCommand(Command) /\ isWeatherCommand(Command))
        => /\ result.success
           /\ Has(result, "data")
           /\ \/ result.data.type = "current" /\ Has(result.data, "weather")
              \/ result.data.type = "forecast" /\ Has(result.data, "forecast")

C3_Witness ==
    /\ ncmd > 0
    /\ ~isHomeCommand(Command)
    /\ isWeatherCommand(Command)
    /\ met.http = "fail"
    /\ result.success
    /\ result.data.type = "current"

IsNewsUtterance == ncmd > 0 /\ ~isHomeCommand(Command) /\ ~isWeatherCommand(Command) /\ isNewsCommand(Command)

\* C4: when the news gateway call of a News utterance fails, the result is success=false
\* with the fixed apology and no data
C4_NewsFailureSurfaced ==
    (IsNewsUtterance /\ met.http = "fail")
        => result = [success |-> FALSE,
                     response |-> "I'm having trouble getting the news information right now. Please try again later."]

C4_Witness ==
    /\ IsNewsUtterance
    /\ met.http = "fail"
    /\ calls[1].op = "getTopHeadlines"
    /\ ~result.success

\* C5: processMessage reports a special command exactly when the interpreter succeeded,
\* then with the interpreter's response and data; otherwise, and when processCommand
\* throws, it returns isSpecialCommand=false and nothing else
C5_FacadeFollowsResult ==
    /\ ncmd > 0 =>
          IF result.success
          THEN /\ facade.isSpecialCommand
               /\ facade.response = result.response
               /\ facade.data = result.data
          ELSE facade = [isSpecialCommand |-> FALSE]
    /\ processMessage(message, [threw |-> TRUE]) = [isSpecialCommand |-> FALSE]

C5_Witness ==
    /\ ncmd > 0
    /\ ~result.success
    /\ ~facade.isSpecialCommand

TurnsOn(command) == Includes(command, "turn on") \/ Includes(command, "switch on")

\* the command names the light e and no other device
NamesOnly(command, devs, e) ==
    /\ Includes(command, toLowerCase(devs.lights[e].friendly_name))
    /\ \A c \in DOMAIN devs : \A other \in DOMAIN devs[c] :
           other # e => ~Includes(command, toLowerCase(devs[c][other].friendly_name))

\* C8: for an utterance with a turn-on synonym and the name of a registered light, exactly
\* one turn_on call is issued for that light and the successful response contains the
\* light's friendly name as the registry holds it
C8_TurnOnNamesDevice ==
    \A e \in DOMAIN devices.lights :
        (ncmd > 0 /\ TurnsOn(Command) /\ NamesOnly(Command, devices, e))
            => /\ calls = <<RegistryCall("light", "turn_on", [entity_id |-> e])>>
               /\ result.success
               /\ Includes(result.response, devices.lights[e].friendly_name)

\* the places of a message read as "<words> in|for|at <place>": the preposition is a word
\* of its own and the place is the run of letters and spaces after it, which ends at the
\* end of the text or at one of ? . , !
ClaimedPlaces(raw) ==
    LET text == trim(raw)
        preps == {" in ", " for ", " at "}
    IN  {trim(SubSeq(text, p + Len(w), RunEnd(text, p + Len(w), WordSet) - 1)) :
            <<p, w>> \in {pw \in (1..Len(text)) \X preps :
                            /\ MatchAt(text, pw[1], pw[2])
                            /\ RunEnd(text, pw[1] + Len(pw[2]), WordSet) > pw[1] + Len(pw[2])
                            /\ LET stop == RunEnd(text, pw[1] + Len(pw[2]), WordSet)
                               IN  stop > Len(text) \/ CharAt(text, stop) \in TerminatorSet}}

IsWeatherUtterance == ncmd > 0 /\ ~isHomeCommand(Command) /\ isWeatherCommand(Command)

\* C9: the location passed to the weather gateway is the place as the user wrote it,
\* whatever precedes the preposition, and "New York" when the message names no place
C9_LocationAsWritten ==
    IsWeatherUtterance
        => /\ Len(calls) = 1
           /\ IF ClaimedPlaces(message) = {} THEN calls[1].location = "New York"
              ELSE calls[1].location \in ClaimedPlaces(message)

\* the first category of the fixed list that occurs in the command, "" when none does
FirstCategory(command) ==
    IF \E i \in 1..Len(getAvailableCategories) : Includes(command, getAvailableCategories[i])
    THEN getAvailableCategories[Min({i \in 1..Len(getAvailableCategories) :
                                        Includes(command, getAvailableCategories[i])})]
    ELSE ""

\* the query the (about|on) pattern extracts from the command, "" when it extracts none
PatternQuery(command) == trim(PrepositionMatch(command, <<"about", "on">>).group)

\* C10: a News utterance makes exactly one news gateway call: searchNews(query, 5) when
\* the pattern extracts a query, also when a category is named, and otherwise
\* getTopHeadlines("us", category, 5) with the first listed category in the utterance
C10_OneNewsCall ==
    IsNewsUtterance
        => /\ Len(calls) = 1
           /\ calls[1].target = "news"
           /\ IF PatternQuery(Command) # ""
              THEN calls[1] = [target |-> "news", op |-> "searchNews",
                               query |-> PatternQuery(Command), pageSize |-> 5]
              ELSE calls[1] = [target |-> "news", op |-> "getTopHeadlines", country |-> "us",
                               category |-> FirstCategory(Command), pageSize |-> 5]

C10_Witness ==
    /\ IsNewsUtterance
    /\ PatternQuery(Command) # ""
    /\ FirstCategory(Command) # ""
    /\ calls[1].op = "searchNews"

\* the category the last call was handled as, read off what the call did: the answer to
\* an unclassified command, a request to the weather or the news gateway, or else Home
ObservedCategory ==
    IF result = UnknownResult THEN "unclassified"
    ELSE IF \E i \in 1..Len(calls) : calls[i].target = "weather" THEN "weather"
    ELSE IF \E i \in 1..Len(calls) : calls[i].target = "news" THEN "news"
    ELSE "home"

\* some keyword of the three keyword sets occurs in the command
AnyKeywordAtAll == AnyKeyword(Command, homeKeywords \o weatherKeywords \o newsKeywords)

\* C16: classification is total and deterministic: every utterance is handled as exactly
\* one of Home, Weather, News and Unclassified without raising, the category depends on
\* nothing but the utterance, and it is Unclassified exactly when no keyword of the three
\* sets occurs in the lower-cased, trimmed utterance.
C16_ClassificationTotal ==
    ncmd > 0 =>
        /\ Has(result, "success")
        /\ ObservedCategory = "unclassified" <=> ~AnyKeywordAtAll
        /\ ObservedCategory =
               IF isHomeCommand(Command) THEN "home"
               ELSE IF isWeatherCommand(Command) THEN "weather"
               ELSE IF isNewsCommand(Command) THEN "news"
               ELSE "unclassified"

C16_Witness ==
    /\ ncmd > 0
    /\ message = "hello there"
    /\ ~AnyKeywordAtAll
    /\ ObservedCategory = "unclassified"

\* the last call was handled by the Home branch
HomeHandled == ncmd > 0 /\ isHomeCommand(Command)

TurnsOff(command) == Includes(command, "turn off") \/ Includes(command, "switch off")

\* the action the tests select for the command and an entity of the given domain, in the
\* order turn-on, turn-off, dim, brighten, set-temperature; "none" when no test matches
ExpectedAction(command, domain) ==
    IF TurnsOn(command) THEN "turn_on"
    ELSE IF TurnsOff(command) THEN "turn_off"
    ELSE IF domain = "light" /\ (Includes(command, "dim") \/ Includes(command, "lower")) THEN "dim"
    ELSE IF domain = "light" /\ (Includes(command, "brighten") \/ Includes(command, "increase"))
    THEN "brighten"
    ELSE IF domain = "climate" /\ Includes(command, "temperature") THEN "set_temperature"
    ELSE "none"

\* the registry service that carries out an action
ServiceOf(action) ==
    IF action \in {"turn_on", "dim", "brighten"} THEN "turn_on"
    ELSE IF action = "turn_off" THEN "turn_off"
    ELSE "set_temperature"

\* C17: once an entity is resolved, the Home action is the one of the first matching test
\* in the order turn-on, turn-off, dim, brighten, set-temperature (dim and brighten only
\* for a light, set-temperature only for a climate entity, with the number before
\* "degrees" or 22), and exactly one service call is issued for it, on the resolved
\* entity; an utterance with both "turn on" and "turn off" turns the device on.
C17_HomeActionOrder ==
    HomeHandled =>
        \E target \in {ResolveTarget(Command, met.before)} :
            target.entityId # "" =>
                \E expected \in {ExpectedAction(Command, DomainOf(target.entityId))} :
                    IF expected = "none"
                    THEN calls = <<>> /\ ~Has(result.data, "action")
                    ELSE /\ result.data.action = expected
                         /\ Len(calls) = 1
                         /\ calls[1].target = "registry"
                         /\ calls[1].service = ServiceOf(expected)
                         /\ calls[1].data.entity_id = target.entityId
                         /\ expected \in {"dim", "brighten"} => calls[1].domain = "light"
                         /\ expected = "set_temperature" =>
                                /\ calls[1].domain = "climate"
                                /\ calls[1].data.temperature =
                                       IF DegreesMatch(Command).found
                                       THEN parseInt(DegreesMatch(Command).group)
                                       ELSE 22

\* both "turn off" and "turn on" were said and the device was turned on
C17_Witness ==
    /\ HomeHandled
    /\ TurnsOn(Command) /\ TurnsOff(Command)
    /\ Len(calls) = 1
    /\ calls[1].service = "turn_on"
    /\ result.data.action = "turn_on"

\* the friendly names of the registry the last call worked on, in registry order
NamesBefore == getDeviceFriendlyNames(met.before)

\* positions of the friendly names that occur in the command
NamedIn(command) ==
    {i \in 1..Len(NamesBefore) : Includes(command, toLowerCase(NamesBefore[i].name))}

\* the first of the four rooms that occurs in the command, "" when none does
FirstRoom(command) ==
    IF \E r \in 1..Len(rooms) : Includes(command, rooms[r])
    THEN rooms[Min({r \in 1..Len(rooms) : Includes(command, rooms[r])})]
    ELSE ""

\* positions of the friendly names that mention the room
InRoom(room) ==
    {i \in 1..Len(NamesBefore) : room # "" /\ Includes(toLowerCase(NamesBefore[i].name), room)}

\* the entity the three steps give: the first friendly name in the command, else the
\* first entity of the first room mentioned, else the living room light when a light is
\* mentioned, else none
ExpectedEntity(command) ==
    IF NamedIn(command) # {} THEN NamesBefore[Min(NamedIn(command))].entityId
    ELSE IF InRoom(FirstRoom(command)) # {}
    THEN NamesBefore[Min(InRoom(FirstRoom(command)))].entityId
    ELSE IF Includes(command, "light") THEN "light.living_room"
    ELSE ""

\* C18: the Home target is the first registry friendly name contained in the utterance;
\* if there is none, the first entity in registry order whose friendly name mentions the
\* first room found in the utterance; if there is none, light.living_room when the
\* utterance mentions "light"; otherwise no entity, and then no service is called.
C18_TargetResolutionOrder ==
    HomeHandled =>
        /\ Len(calls) <= 1
        /\ Len(calls) = 1 => calls[1].data.entity_id = ExpectedEntity(Command)
        /\ ExpectedEntity(Command) = "" => calls = <<>>

\* a friendly name and a room were both said and the named entity was taken
C18_Witness ==
    /\ HomeHandled
    /\ message = "turn on the living room speaker"
    /\ NamedIn(Command) # {}
    /\ FirstRoom(Command) = "living room"
    /\ Len(calls) = 1
    /\ calls[1].data.entity_id = "media_player.living_room"

\* C23: for every utterance handled successfully the facade's commandType is the type
\* derived from the raw message (home, weather, news or unknown), whatever the interpreter
\* decided, and the data of the interpreter's result, with the commandType of its branch
\* where the interpreter sets one, is kept beside it; the two can differ.
C23_FacadeTypeIndependent ==
    (ncmd > 0 /\ result.success) =>
        /\ facade.commandType = getCommandType(message)
        /\ facade.commandType \in {"home", "weather", "news", "unknown"}
        /\ facade.data = result.data
        /\ Has(result.data, "commandType") => result.data.commandType = ObservedCategory

\* an utterance handled successfully whose two command types differ
C23_Witness ==
    /\ ncmd > 0
    /\ result.success
    /\ facade.isSpecialCommand
    /\ Has(facade.data, "commandType")
    /\ facade.commandType # facade.data.commandType

\* C25: for an utterance with no Home, Weather or News keyword processCommand returns
\* success=false with no data and calls neither the registry nor a gateway; and every
\* result with success=false, of any branch, has no data field.
C25_FailureCarriesNoData ==
    ncmd > 0 =>
        /\ ~AnyKeywordAtAll =>
              /\ ~result.success
              /\ calls = <<>>
              /\ devices = met.before
        /\ ~result.success => ~Has(result, "data")

\* an utterance without any keyword was interpreted
C25_Witness ==
    /\ ncmd > 0
    /\ ~AnyKeywordAtAll
    /\ ~result.success
    /\ DOMAIN result = {"success", "response"}

\* the interpreter confirmed switching an entity on or off
SwitchConfirmed ==
    /\ ncmd > 0
    /\ result.success
    /\ Has(result.data, "action")
    /\ result.data.action \in {"turn_on", "turn_off"}

\* the state the registry holds for the entity, in print (a sensor's state is a number)
StateInRegistry(entityId) == ToString(EntityReturn(devices, entityId).state)

\* C26: a Home confirmation matches the registry: whenever processCommand returns
\* data.action = "turn_on" (or "turn_off") for an entity, the state of that entity in the
\* registry is "on" (or "off") right afterwards, whatever the domain of the entity.
C26_ConfirmationMatchesRegistry ==
    SwitchConfirmed =>
        StateInRegistry(result.data.entity_id)
            = ToString(IF result.data.action = "turn_on" THEN "on" ELSE "off")

-----------------------------------------------------------------------------
(* Properties of the chat component (specification Spec) *)

InFlight == {t \in 1..Len(turns) : pc[t] # "done"}

\* C6: at most one user turn is in flight: between a message being accepted and its reply
\* being appended no second message is accepted, by the Send button or by the Enter key
C6_OneTurnInFlight == Cardinality(InFlight) <= 1

\* the requests turn t made to the news gateway, in the browser and in the /api/chat route
NewsRequests(t) == {i \in 1..Len(turns[t].calls) : turns[t].calls[i].target = "news"}

\* C15: within one turn the news gateway is invoked at most once for the message, also
\* when the turn goes on to the /api/chat route after the news request failed.
C15_OneNewsRequestPerTurn == \A t \in 1..Len(turns) : Cardinality(NewsRequests(t)) <= 1

\* the user message of turn t is still in the transcript
UserMessageShown(t) ==
    \E i \in 1..Len(messages) : messages[i] = UserMessage(turns[t].content)

\* the transcript has been cleared since turn t was sent and t has no reply yet
Superseded(t) == pc[t] # "done" /\ ~UserMessageShown(t)

\* C19: a chat reply that arrives after the conversation was cleared is ignored: the step
\* in which a superseded turn finishes leaves the transcript as it was.
C19_StaleReplyIgnored ==
    [][\A t \in 1..Len(turns) :
          (Superseded(t) /\ pc'[t] = "done") => messages' = messages]_vars

\* C22: the widget shown after a special command is the one for data.commandType of the
\* result: whenever the facade's commandType differs from it, the widget displayed is still
\* the one data.commandType names.
C22_WidgetFollowsData ==
    (/\ special # Null
     /\ Has(special.data, "commandType")
     /\ special.data.commandType # special.type)
        => DisplayedWidget(special) = special.data.commandType

\* the response texts of the interpreter's results with success=false
FailureTexts ==
    {UnknownResult.response,
     NewsCatch.response,
     WeatherCatchServices.response}

\* turns whose interpretation did not succeed: the facade reported no special command
NotSpecialTurns == {t \in 1..Len(turns) : turns[t].facade = NotSpecial}

\* C28: the response text of an interpreter result with success=false never reaches the
\* transcript: for such a turn the facade returns isSpecialCommand=false and nothing else,
\* the turn is answered only through /api/chat, and no assistant message of the transcript
\* carries one of the failure texts.
C28_FailureTextNotShown ==
    /\ \A i \in 1..Len(messages) :
          messages[i].role = "assistant" => messages[i].content \notin FailureTexts
    /\ \A t \in 1..Len(turns) :
          (turns[t].facade # NotCalled /\ ~turns[t].facade.isSpecialCommand)
              => /\ turns[t].facade = [isSpecialCommand |-> FALSE]
                 /\ pc[t] \in {"chat", "done"}
                 /\ turns[t].replies <= 1
    /\ \A t \in NotSpecialTurns :
          (pc[t] = "done" /\ Len(turns) = 1 /\ UserMessageShown(t)) =>
              /\ messages[Len(messages)].role = "assistant"
              /\ \/ messages[Len(messages)].content \in {LlmReply, Apology}
                 \/ \E http \in HttpOutcomes :
                       \E route \in {ChatRoute(turns[t].content, http, ChatDay, ChatRandom, "ok")} :
                          messages[Len(messages)].content = route.content

\* an unclassified message was answered by the /api/chat reply
C28_Witness ==
    /\ Len(turns) = 1
    /\ turns[1].content = "hello there"
    /\ turns[1].facade = NotSpecial
    /\ pc[1] = "done"
    /\ messages = <<Greeting, UserMessage("hello there"), AssistantMessage(LlmReply)>>

\* turn t has ended with exactly one assistant message appended for it
Answered(t) == pc[t] = "done" /\ turns[t].replies = 1

\* C29: when every service call and request eventually returns or fails, every accepted
\* user message is eventually answered by exactly one assistant message for its turn:
\* again and again all the turns accepted so far are answered, no turn ever gets a second
\* message, and isProcessing always returns to false.
C29_EveryTurnAnswered ==
    /\ []<>(\A t \in 1..Len(turns) : Answered(t))
    /\ [](\A t \in 1..Len(turns) : turns[t].replies <= 1)
    /\ []<>(~isProcessing)

\* a weather turn that waited for its gateway has been answered and processing has ended
C29_Witness ==
    /\ Len(turns) >= 1
    /\ turns[1].content = "what's the weather in Paris"
    /\ turns[1].facade # NotCalled
    /\ Answered(1)
    /\ ~isProcessing
    /\ messages[Len(messages)].role = "assistant"

-----------------------------------------------------------------------------
(* Properties of the device registry (specification SpecRegistry) *)

\* C7: after any sequence of registry operations every light and switch is "on" or "off"
\* and every media player is "on", "off" or "idle"
C7_StateDomains ==
    /\ \A e \in DOMAIN devices.lights : devices.lights[e].state \in {"on", "off"}
    /\ \A e \in DOMAIN devices.switches : devices.switches[e].state \in {"on", "off"}
    /\ \A e \in DOMAIN devices.media_players :
           devices.media_players[e].state \in {"on", "off", "idle"}

\* C20: callService is the only registry operation that changes an entity: a step of
\* connect, isConnected, getStates, getState, setState, getAvailableDevices or
\* getDeviceFriendlyNames leaves every entity's state and attributes as they were.
\* (every registry operation counts in regOps; the registries are compared in print, as a
\* state may hold a number in one and a string in the other)
C20_OnlyCallServiceMutates ==
    [][regReturn'.op # "callService" => ToString(devices') = ToString(devices)]_regOps

\* C21: device-state writes are idempotent: in every registry state the operations lead to,
\* any callService applied twice in a row leaves the registry as applying it once does.
C21_CallServiceIdempotent ==
    \A domain \in ServiceDomains, service \in ServiceNames, data \in ServicePayloads :
        \E once \in {callService(devices, domain, service, data)} :
            callService(once, domain, service, data) = once

\* a service call has switched the kitchen light on at brightness 100, and a further call
\* would change the registry again
C21_Witness ==
    /\ regOps > 0
    /\ regReturn.op = "callService"
    /\ devices.lights["light.kitchen"] = [initializeMockDevices.lights["light.kitchen"]
                                            EXCEPT !.state = "on", !.brightness = 100]
    /\ callService(devices, "light", "turn_off", [entity_id |-> "light.kitchen"]).lights
           # devices.lights

\* the collection callService looks the entity up in, "" for a domain it does not know
CollectionOf(domain) ==
    IF domain = "light" THEN "lights"
    ELSE IF domain = "switch" THEN "switches"
    ELSE IF domain = "climate" THEN "thermostats"
    ELSE IF domain = "media_player" THEN "media_players"
    ELSE ""

\* the services callService knows for the domain
ServicesOf(domain) ==
    IF domain \in {"light", "switch"} THEN {"turn_on", "turn_off"}
    ELSE IF domain = "climate" THEN {"set_temperature", "turn_off"}
    ELSE IF domain = "media_player" THEN {"volume_set", "turn_on", "turn_off"}
    ELSE {}

\* C27: in every registry state, callService(domain, service, {entity_id, ...}) changes at
\* most the entity named by entity_id; with an unknown domain or service, or an entity that
\* is not in the collection of the domain, it changes nothing; and the call returns the
\* success acknowledgement.
C27_CallServiceFrame ==
    /\ \A domain \in ServiceDomains, service \in ServiceNames, data \in ServicePayloads :
          \E after \in {callService(devices, domain, service, data)} :
             /\ DOMAIN after = DOMAIN devices
             /\ \A c \in DOMAIN devices :
                   /\ DOMAIN after[c] = DOMAIN devices[c]
                   /\ \A e \in DOMAIN devices[c] :
                         e # data.entity_id => after[c][e] = devices[c][e]
             /\ (\/ CollectionOf(domain) = ""
                 \/ service \notin ServicesOf(domain)
                 \/ data.entity_id \notin DOMAIN devices[CollectionOf(domain)])
                   => after = devices
    /\ (regOps > 0 /\ regReturn.op = "callService") => regReturn.value = [success |-> TRUE]

\* the bedroom light was switched on by a service call while another light is on, too
C27_Witness ==
    /\ regOps = 2
    /\ regReturn.op = "callService"
    /\ regReturn.value = [success |-> TRUE]
    /\ devices.lights["light.bedroom"].state = "on"
    /\ devices.lights["light.kitchen"].state = "on"
    /\ devices.lights["light.kitchen"].brightness = 100

\* every light is "off" with brightness 0 or "on" with a brightness in 1..255
LightsConsistent(devs) ==
    \A e \in DOMAIN devs.lights :
        \/ devs.lights[e].state = "off" /\ devs.lights[e].brightness = 0
        \/ devs.lights[e].state = "on" /\ devs.lights[e].brightness \in 1..255

\* brightness arguments of service calls: both ends of 0..255 and values between
BrightnessInputs == {0, 1, 100, 255}

\* service payloads with the brightness absent or in 0..255
BrightnessPayloads ==
    [entity_id : EntityInputs] \cup [entity_id : EntityInputs, brightness : BrightnessInputs]

\* C30: after any sequence of callService calls whose brightness is absent or in 0..255
\* every light is "off" exactly when its brightness is 0 and "on" exactly when it is in
\* 1..255: the fresh registry is so, and a call made in a registry that is so leaves it so
\* (turn_on with brightness 0 sets 255).
C30_LightStateMatchesBrightness ==
    /\ LightsConsistent(initializeMockDevices)
    /\ LightsConsistent(devices) =>
          \A domain \in ServiceDomains, service \in ServiceNames, data \in BrightnessPayloads :
              LightsConsistent(callService(devices, domain, service, data))
    /\ \A e \in DOMAIN devices.lights :
          callService(devices, "light", "turn_on", [entity_id |-> e, brightness |-> 0])
              .lights[e].brightness = 255

\* service calls have switched one light on at the brightness given and another at 255
C30_Witness ==
    /\ regOps = 2
    /\ regReturn.op = "callService"
    /\ LightsConsistent(devices)
    /\ devices.lights["light.kitchen"].brightness = 100
    /\ devices.lights["light.bedroom"].state = "on"
    /\ devices.lights["light.bedroom"].brightness = 255

-----------------------------------------------------------------------------
(* Properties of the weather gateway and the fallback generators (specification SpecWeather) *)

\* the last direct call was one of the two gateway operations
GatewayCalled == gwOps > 0 /\ gw.op \in {"getCurrentWeather", "getForecast"}

\* C11: getCurrentWeather and getForecast raise an error to their caller whenever the HTTP
\* exchange fails (non-2xx status or transport failure), and return a value only when the
\* live request succeeded.
C11_GatewayRaisesOnFailure ==
    GatewayCalled => (gw.reply.threw <=> gw.args.http = "fail")

\* the last direct call was getForecast and its request succeeded
LiveForecast == gwOps > 0 /\ gw.op = "getForecast" /\ gw.args.http = "ok"

\* C12: a forecast built from live data has exactly `days` entries, one for each of the
\* `days` calendar days after the current one, in chronological order and without the
\* current day, also when these days run over the end of a month.
C12_LiveForecastDays ==
    LiveForecast =>
        /\ ~gw.reply.threw
        /\ Len(gw.reply.value) = gw.args.days
        /\ \A i \in 1..gw.args.days :
               gw.reply.value[i].date = toLocaleDateString(gw.args.now + i)

\* the last direct call was one of the three fallback forecast generators
FallbackForecastCalled ==
    /\ gwOps > 0
    /\ gw.op \in {"WeatherService.getFallbackForecast", "CommandProcessor.generateFallbackForecast",
                  "WeatherDisplay.generateFallbackForecast"}

\* the temperature of the fallback record that the generator's own component makes for
\* the location
FallbackBaseTemperature ==
    IF gw.op = "WeatherService.getFallbackForecast"
    THEN getFallbackWeatherData(gw.args.location, gw.args.rnd).temperature
    ELSE IF gw.op = "CommandProcessor.generateFallbackForecast"
    THEN apiGetFallbackWeatherData(gw.args.location, gw.args.rnd).temperature
    ELSE widgetGetFallbackWeatherData(gw.args.location, gw.args.rnd).temperature

\* C13: a fallback forecast has exactly the requested number of entries (5 in the command
\* processor and the widget), for the calendar days that follow today in ascending order
\* and without today, and every temperature is within 3 degrees of the fallback base
\* temperature of the location.
C13_FallbackForecastDays ==
    FallbackForecastCalled =>
        /\ Len(gw.reply.value) = gw.args.days
        /\ \A i \in 1..gw.args.days :
               /\ gw.reply.value[i].date = toLocaleDateString(gw.args.now + i)
               /\ gw.reply.value[i].temp - FallbackBaseTemperature \in -3..3

\* the last direct call was one of the three fallback record generators
FallbackRecordCalled ==
    /\ gwOps > 0
    /\ gw.op \in {"WeatherService.getFallbackWeatherData", "CommandProcessor.getFallbackWeatherData",
                  "WeatherDisplay.getFallbackWeatherData"}

\* C14: the record of every fallback generator has the fields of a record made from live
\* data: location, temperature, description, humidity, windSpeed, icon, feels_like,
\* temp_min and temp_max.
C14_FallbackFieldSet ==
    FallbackRecordCalled => DOMAIN gw.reply.value = DOMAIN WeatherRecord(LiveWeatherBody)

\* the city table of the generator called last
TableUsed ==
    IF gw.op = "WeatherDisplay.getFallbackWeatherData" THEN widgetCityWeatherData
    ELSE cityWeatherData

\* positions of the table cities that occur, whatever their case, in the trimmed location
CitiesIn(location) ==
    {c \in 1..Len(TableUsed) :
        Includes(toLowerCase(trim(location)), toLowerCase(TableUsed[c].city))}

\* the generator called last, called again with other random numbers
CalledAgain(rnd) ==
    IF gw.op = "WeatherService.getFallbackWeatherData"
    THEN getFallbackWeatherData(gw.args.location, rnd)
    ELSE IF gw.op = "CommandProcessor.getFallbackWeatherData"
    THEN apiGetFallbackWeatherData(gw.args.location, rnd)
    ELSE widgetGetFallbackWeatherData(gw.args.location, rnd)

\* C24: temperature, description and icon of a fallback record depend on the trimmed
\* location only: they are those of the first table city contained in it, whatever the
\* case; with no such city the temperature is 15 + (hash mod 20), in 15..34, and the
\* description is conditions[hash mod 5], hash being the sum of the character codes; a
\* second call with the same location gives the same three values.
C24_FallbackBaseDeterministic ==
    FallbackRecordCalled =>
        \E record \in {gw.reply.value} :
            /\ IF CitiesIn(gw.args.location) # {}
               THEN \E city \in {TableUsed[Min(CitiesIn(gw.args.location))]} :
                       /\ record.temperature = city.temperature
                       /\ record.description = city.description
                       /\ record.icon = city.icon
               ELSE \E hash \in {HashOf(trim(gw.args.location))} :
                       /\ record.temperature = 15 + (hash % 20)
                       /\ record.temperature \in 15..34
                       /\ record.description = conditions[(hash % 5) + 1]
            /\ \A rnd \in RandomStreams :
                   \E again \in {CalledAgain(rnd)} :
                       /\ again.temperature = record.temperature
                       /\ again.description = record.description
                       /\ again.icon = record.icon

\* a generator was given a location with spaces around it that is in no table
C24_Witness ==
    /\ FallbackRecordCalled
    /\ gw.args.location # trim(gw.args.location)
    /\ CitiesIn(gw.args.location) = {}
    /\ gw.reply.value.temperature = 15 + (HashOf(trim(gw.args.location)) % 20)

====
